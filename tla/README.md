# Verification of agentflow-runtime

TLA+ specifications of the parts of agentflow-runtime that decide what may
happen to a user's project, model-checked with TLC and, for the invariants that
matter most, proved with TLAPS. Line numbers are those of the TypeScript
sources; `PROJECT.json` maps each definition to the lines it stands for.

1. [The system](#1-the-system)
2. [Modules and how they correspond to the code](#2-modules-and-how-they-correspond-to-the-code)
3. [Runs](#3-runs)
4. [Proofs](#4-proofs)
5. [What the code does differently from its documents](#5-what-the-code-does-differently-from-its-documents)
6. [What is left out](#6-what-is-left-out)
7. [Plan](#7-plan)
8. [Running it](#8-running-it)

## 1. The system

AgentFlow runs workflow templates (graphs of agents) over a task, for a person
who works in OpenCode. Two ideas run through it: a run must be *explainable*
from what it leaves on disk, and nothing risky happens without an *approval*
that is good for one use.

| Component | State it keeps | Operations | What makes it correct |
|---|---|---|---|
| **Policy approval and replay** `adapters/opencode/Policy*`, `ApprovalReplayService`, the plugin | `.opencode/policy-runs/pending/<id>.json`, `approvals.jsonl`, `decisions.jsonl`, `replays.jsonl` | evaluate a tool call, approve, reject, replay by the plugin, replay by command | a risky call is used only if approved, once, exactly as approved, and never without a trail |
| **Workflow runtime** `core/WorkflowRunner`, `WorkflowRuntime`, `WorkflowGraph`, `ConditionEvaluator`, `subagent/*`, `LLMExecutor`, `TraceStore` | the `WorkflowContext` of a run, an artifact directory per dispatch, `trace.json`, `context.json`, `summary.md` | dispatch, execute, complete, route, fail, save | runs are bounded and deterministic; the trace is a path, and what it claims is on disk |
| **CodeChangePlan execution** `core/repair/CodeChangePlanExecutionExecutor`, `core/execution/*` | the execution approval (in memory), the workspace and its git state, execution records, rollback guides, `records.jsonl` | validate, checkpoint, write files, diff, test, verify, consume, save | one approval, one execution; only files in scope are written; every outcome is recorded |
| **Execution verification** `core/verification/*` | none | collect evidence, check constraints, classify failures | it fails exactly when a rule is broken, and names that rule |
| **Adaptive goal execution** `core/adaptive/*` | `adaptiveState` in the context, `attempt-NNN.json`, `decisions.jsonl` | plan routes, attempt, analyse the failure, retry / ask / stop | no route tried twice, a loop ends by a decision for a reason, the files are a prefix of what happened |
| **Repair planning and approval** `core/repair/RepairPlan*`, `CodeChangePlan{Hasher,DryRunExecutor,ExecutionApprovalExecutor}` | plans and approval records, carried between runs as JSON | build, decide, materialize, request, decide, dry run | what is run is what was approved |
| **Profiles and sessions** `core/profile/*`, `core/scope/*`, `core/project-memory/*` | session records and `current-<profile>.json`, scope confirmations, project memory | start, ask, confirm, resume, compact, switch profile | a confirmation on disk is backed; a completed session ran its chain; memory tells what happened |
| **Task negotiation** `core/negotiation/*` | the negotiation and the confirmed scope | negotiate, confirm, expire, gate | what passes the gate is what was negotiated |
| **LLM client** `core/OpenAICompatibleLLMClient`, `LLMConfigLoader`, `StructuredOutputRepairer` | attempts of one request, the call records | configure, request, time out, repair, give up | bounded attempts, each explained by the one before; no key at a foreign provider |
| **Schemas and outputs** `core/SchemaValidator`, `OutputSchemaRegistry` | none | show a shape, check an output | an answer of the shape that was shown is accepted |
| **Roles and templates** `core/RoleCatalog`, `Template*`, `WorkflowTemplate*` | a shared cache of roles, `workflows/*.json` | look up, validate, scaffold, create | what exists is found; a name stands for one template |
| **External import and patch export** `core/external`, `core/patch` | a copy of a project with a git baseline, an export directory | import, test, change, export, verify | a safe export was verified; a patch that passes rebuilds the verified state |
| **Native packs** `core/opencode` | manifest, trace, summary, the agents' outputs | build, collect | completed only with every output once valid |
| **OpenCode entry, MCP server** `adapters/opencode/AgentFlowWorkflow*`, `mcp/` | the last formatted text per session, the exchanged `console.log` | parse an entry, call the tool, run, show | the text of a run goes to whoever asked, logs stay off stdout, no real LLM unasked |
| **Command line, mock client, classifiers, formatters, plugin copy, Python prototype** | none of their own | adapt, classify text | not about state |

How they interact. A run is one process: a single JavaScript thread that gives
way at every `await`. Within it the runtime calls executors through
`NodeRegistry`, and everything else (code execution, verification, adaptive
control, LLM) is an executor that reads and writes the shared
`WorkflowContext`. Between processes (the OpenCode plugin, the `policy:*`
commands, the MCP server, several runs) the only channel is files, and no file
is locked. The hard behaviours follow:

* *Interleaving and atomicity*: check-then-act on approval, session and template
  files by several processes; overlapping executions that share one approval
  object; lookups that share one cache; a developer who edits the workspace while
  a run works in it; agents that rewrite outputs while they are collected.
* *Partial failure*: three writes make a record, two an approval; any may throw,
  and the catch blocks act on what the try block had already done.
* *Crashes*: `writeFileSync` truncates before it fills; logs are appended before
  or after the files they describe.
* *Bounds*: the iteration limit, budgets, the size at which a patch is cut, the
  15 minutes an approval lives.
* *Progress*: a run, an execution, an approval that was begun must end.
* *Drift*: three hand-written versions of every output schema; approvals and
  confirmations that outlive the document they were given for.

`PROJECT.json` lists these as hazards, each at its line, with the properties that
watch it.

## 2. Modules and how they correspond to the code

A module has one action per awaited call (or, in the synchronous policy code, per
file system call), with all of the synchronous code up to the next one in the
action: that is the granularity at which JavaScript and the operating system
let others in. Operators that begin with a comment "Faulty variant" are not part
of the specification: each is a definition with a plausible bug in it, and each
property of section 3 is violated when one of them replaces the original, so no
property holds for lack of anything that could break it.

### PolicyApproval

State: `file[d]` is `pending/<d>.json`; `log[d]` the statuses in
`approvals.jsonl`; `audit[d]` the root decision and the replay lines in
`decisions.jsonl`; `replays[d]` what `replays.jsonl` holds; `proc[x]` the program
counter and the locals of process `x`; `released` and `spawned` count how often
the plugin let the approved call through and a runner started it; `now` the
clock that expiry is compared with.

Processes: *plugins* (`Evaluate`, `CreatePending`; then `Replay`, `ConsumeWrite`,
`ConsumeLog`, `AuditReplay`, `Release`), *resolvers* (`Resolve`, `ResolveLog`,
`ResolveWrite`: the log line first, then the file) and *runners* (`DryRun`,
`Plan`, `Spawn` or `SpawnError`, `Exit`, `ConsumeRead`, `ConsumeWrite`,
`ConsumeLog`, `Report`: the command runs before the approval is consumed).
`Crash` ends a process between two steps or inside a write, which leaves the
file torn; `Tick` lets approvals expire. A refused operation (an unreadable file
in `Resolve` or `Replay`, a record that is not pending) changes nothing and so is
no step.

Abstracted: a tool call is an element of `Calls` and its hash is the call. What
matters of a call is whether its affected paths were stored unsorted
(`Reordered`), whether its stored form is redacted or truncated (`Sanitized`),
and whether a runner can execute it (`Shell`). One append of a line is
all-or-nothing.

### SingleUseApproval

The promise, in 20 lines: a request is approved or rejected once, an approval is
consumed or expires, a consumed approval is used at most once, and the record
of a decision that is not final may be lost. `PolicyApproval!Abstract` maps the approval file to `status` and
`released + spawned` to `uses`.

### WorkflowRuntime

State: the fields of `WorkflowContext` the runtime itself writes (`values`,
`iteration`, `history`, `trace`, `records` = `subAgentDispatches`, `calls` =
`llmCalls`, `stop`), the artifact directory of each step (`disk`), and which
files were saved. `Dispatch`, `Execute`, `Complete` and `Save` are the awaited
calls of `WorkflowRuntime.run` and `WorkflowRunner.run`; `DispatchFails`,
`ExecuteFails`, `CompleteFails`, `Fail`, `FailFails`, `SaveFails` are the ways
they throw. `Complete` carries everything after the third `await`: the context
update, `resolveNextNode` (which may throw after the dispatch was completed),
the iteration limit and the trace entry.

Abstracted: an output is the field of it that conditions test. A template is a
parameter: `Edges` in template order, since the first matching edge wins;
`GraphAssumption` states what `WorkflowTemplateValidator` guarantees of it.

### ExecutionVerification, Verdict

`ExecutionVerification` is a pure algorithm: `Evidence` (VerificationEvidenceBuilder), `ConstraintFailures`
(ConstraintChecker), `CodeOf` and `Classify` (FailureClassifier), `FailureCodes`
and `Passes` (ExecutionVerifier). ConstraintChecker hands over *messages*, and
FailureClassifier finds their codes by matching words, including those of file
names the message quotes: a message is therefore a rule with the telling words
in it. Score, wording and recommended fixes are left out. `Verdict` runs it once on results and a
task (`VerifyResults`, VerificationExecutor) and states the documented rules on the results
themselves, without messages or words.

### CodeChangeExecution (extends ExecutionVerification)

State: `approval`, the status of the approval object that the contexts share;
`work` and `commit`, what files hold; `git`, whether the workspace is a
repository and git can be spawned; per run the locals of `executeApprovedPlan` and
of `CodeExecutor.execute` (`todo`, `before`, `written`, `trouble`, `code`,
`test`, `record`, `retried`); `disk` and `log`, what `ExecutionRecordStore` has
written; three history variables, `touched` (what a run changed, whatever it reports),
`latest` (what it was the last one to change) and `missed` (files whose `stat` failed in it).

`Start` is the synchronous validation; `Checkpoint`, `Stat`/`Write`/`WriteFails`
per operation (the `stat` and the `writeFile` of one operation are two steps; a `stat` that
fails for any reason answers "does not exist", CodeExecutor.ts:160),
`Diff`/`DiffFails`, `Test`/`TestFails`; `Caught` is the catch block, entered from
any of them and from `SaveFails`; `SaveRecord`, `SaveGuide`, `AppendLog` are the
three writes of a save. `Edit` is a developer, or a test command that writes (`Test` itself
leaves the workspace as it is), `Expire` the clock.

Abstracted: a content is a name with a size, the hash of a plan is the plan. The
executor runs with the limits it sets itself: no dry run, and the default
`maxPatchSize`, with which the comparison in CodeExecutor.ts:109 is never true. Paths are
canonical and every operation has a target (CodeExecutor.ts:151). One set, `Sensitive`, stands
for the lists of CodeChangePlanExecutionExecutor.ts:20 and VerificationEvidenceBuilder.ts:112.
The approval exists in memory only, as in the code. That a refusal word in the output of
a test command counts as a blocked operation is left out.

A crash is not an action of `WorkflowRuntime`, `CodeChangeExecution` and `GoalLoop`: it
stops a run in the state it is in, and the invariants about the disk hold in every
state.

### ProfileSession

State: `active` is `profiles/current.json`; `record`, `current`, `scopes`, `memory`,
`compacted` are the directories of `.agentflow` that outlive a process; `run[r]` is
process `r` with the locals of `ProfileWorkflowRunner.run`. `Start` resolves the profile
and the route (or escalates), then come the awaited calls in the order of the code: the
answer to a pending session is a read, a check and the writes of confirmation, memory and
session; each workflow of the chain is run, blocked by a guard or stopped; route memory and
the final session follow. A session write is two steps, the record and the `current` copy.
A process may stop at any of them; `Compact` and `UseProfile` are other commands.

Abstracted: ids are what they are hashes of; a task is its name, and the constants say
whether its negotiated scope names a module, which profile the router recommends, and
whether its text repeats what memory blocks. Role timelines and formatted output are
left out.

### GoalLoop

One run of goal-driven-task-solving. `Decide` is the synchronous part of the controller;
`SaveAttempt` and `AppendDecision` are its two writes, either of which may fail, leaving
nothing, half or all; `Continues` is the runtime's edge back, which counts an iteration.
A verifier report is the class FailureAnalyzer finds in it. `MCGoalLoop` has the plans of
GoalPlanner, and two with costly routes that only a caller can supply. `Verify` is any node
that returns a report; the one in the repository is a canned answer of core/MockLLMClient.ts.

### RepairPipeline, TaskNegotiation

`RepairPipeline`: a failed report, `BuildPlan`, a person's `DecideRepair`, `Materialize`,
`FillIn` (a person edits the plan), `RequestExecution`, `DecideExecution`, `DryRun`, each
reading documents the others left and any of them repeated; `Tick` expires approvals.
`TaskNegotiation`: `Negotiate` a brief, `Confirm` by answer or override, `Expire`,
`Rewrite` the brief, `EvaluateGate`. Hashes are the tuples they are taken of, so
what a hash leaves out is left out here.

### ExternalProject

`Import`, `InitialTest`, `Change` (write and verdict, whose own steps are
CodeChangeExecution's), `Collect` (what git reports), `Export` and `ExportStops` (four
files), `EditExport`, `GetRecord` and `VerifyPatch`. It uses the verdict of
`ExecutionVerification`. A patch is what it changes; binary contents are those git does not show
as text.

Git sees what the copy's .gitignore leaves it: an `Ignored` file is in neither the baseline
commit (`Tracked`) nor `git status`, so it is never dirty, never reported and never in a patch,
whatever a test command does to it. Three lists of forbidden names are kept apart: `Protected`,
what the plan validators refuse; `Forbidden`, the run's own; and, for `patch:verify`, its
`PatchSensitive` names and the `--forbiddenFiles` it is given, any of `VerifierLists`, the
empty one among them, since the run's list does not reach it (PatchVerifier.ts:46). The
metadata that `patch:verify` reads is what is on disk when it reads it; metadata that somebody
forged is left out.

### LlmRequest, OutputSchemas

`LlmRequest`: which key and host an environment gives, the attempts of one node, the prompt
of each, the record. `OutputSchemas`: per schema what a model is told (`Shown`), what is
checked (`Checked`) and what the executors make (`Made`), field by field, as sets of
values, and the record an execution returns by how far it got.

### NativePack, OpenCodeEntry

`NativePack`: `BuildPack`, agents that write outputs in their own time, collections that
look at one output after the other and write three files, any of them stopped.
`OpenCodeEntry`: `Enter`, `CallTool`, `LogNode`, `EndRun`, `AfterTool`, `CompleteText`,
`Abort` over several chat sessions; the run itself is WorkflowRuntime's. The server serves
calls as they come, so runs overlap, those of aborted turns included.

### RoleCatalog, TemplateCatalog

`RoleCatalog`: lookups that start, list, read file by file and share one cache, which a bad
file empties; one role per file. `TemplateCatalog`: a node has an id, a preset or none, and its
own fields or not (`full`). The validator completes a node from its preset (`Completed`) and
wants the ids to be different and the graph to be sound (`GraphAccepted`); the loader of the
demos wants the fields in the file (`LoaderAccepts`); and a read of the registry may be refused
by a role that a concurrent lookup misses (`MayMissRole`, which is what `RoleCatalog` shows to
happen). Then how a name is resolved, and `Scaffold`, `CheckNames`, `WriteTemplate` of
overlapping creations; `CheckNames` may also be refused by the file's own name, spelled
otherwise (TemplateCreateService.ts:56). `MCCatalogs` has the role files and templates for
`MCComponents`.

### MCComponents: one run for the small components

The components that need no other one are put side by side: `MCComponents` extends them,
`components.cfg` gives their constants values, and the variable `part` says
which of them a behaviour is about; the others stay in their initial state, so the
state space is the sum and not the product. A property of the `components` run is a
conjunction of properties of the modules, where they are stated and explained. `Approvals`
and `Catalogs` have no state of their own: they put two modules together whose properties
one conjunction states (`RepairPipeline` and `TaskNegotiation`, `RoleCatalog` and
`TemplateCatalog`).

## 3. Runs

| Run | Instance | Properties | Distinct states |
|---|---|---|---|
| `policy_shared` | 2 plugins, 2 resolvers, 1 runner, 1 decision, 3 calls (one a patch no runner executes, one with paths stored unsorted), 5 operations, 1 crash, expiry | TypeOK, UsedAsApproved, TrailCoversUses, ServesEachOnce | 429,849 |
| `policy_serial` | 1 plugin, 1 resolver, 2 decisions, a plain and a redacted call, 5 operations, 1 crash, expiry | LogAgrees, ImplementsSingleUse, TrailCompleted | 48,937 |
| `runtime` | a 4 node template with a self loop, a shared output key, every condition type, uncovered outputs; 5 iterations, 2 faults | TypeOK, PathIsBounded, RoutesExplained, ArtifactsProveTrace, StepsAligned, DispatchesExplained, Terminates | 9,368 |
| `execution_serial` | 2 runs one after another, 3 plans, clean or dirty workspace, git present, absent or no repository, 2 faults | TypeOK, OneExecutionDone, RunsEnd | 221,254 |
| `execution_shared` | 2 overlapping runs, 4 plans, 1 fault, 1 edit by a developer | ScopeKept, ReturnedIsRecorded, ExecutedUnlessChanged, CreatesSpareWhatWas, OnlyWhileExecuting, CallsRunOut | 2,274,533 |
| `session` | 2 overlapping runs of the shipped rag and coding profiles, two sessions left pending, 5 requests, 1 process or workflow that stops, 1 compaction or profile change | TypeOK, ConfirmedIsBacked, CompletedRanChain, MemoryExplained, CopiesAgree, AwaitsRunOut, RunsEnd | 124,017 |
| `components` | one component at a time: 4 goal plans; 5 files, one that git ignores and one forbidden, with every code and test result; 6 failed reports; 3 source trees; every LLM environment and reply; 2 pack workflows with 2 collections; 2 chat sessions of 2 turns; 2 role lookups, 2 template creations beside templates of every make; the shipped research-feasibility template; every schema; 240 briefs and their rewrites | RoutesAreChosen, RecordsFollowAttempts, ExportsAreVerified, VerdictsAreRight, ApprovalsBind, CallsAccounted, PacksAreHonest, EntryIsFaithful, CatalogsAnswer, ShippedTemplateRuns | 1,042,197 |
| `policy_two_consumers`, `policy_two_resolvers`, `execution_patch`, `session_gate`, `entry_overlap` | the smallest instance that shows it | one each, violated: section 5 | |

What they show.

* **Policy, any deployment.** Whatever the interleaving and one crash, a call that
  was used had been asked for and its approval is in the log, and the call let through is
  the approved one though the file may be rewritten between the check and the release
  (UsedAsApproved);
  a call the plugin let through has left an `allow` audit line and a `consumed`
  line before (TrailCoversUses). One
  approval may serve several processes, but each of them once: each plugin lets the call
  through once, each runner starts it once, and once more for every runner that died before
  it consumed (ServesEachOnce).
* **Policy, serial deployment** (one plugin, one person resolving at a time, no
  `policy:replay`). The system implements `SingleUseApproval`, crashes included: one
  verdict, one consumption, one use, and a final record stays (ImplementsSingleUse).
  Log and file agree at rest unless a crash came between (LogAgrees), and what was begun reaches both (TrailCompleted). The restrictions
  are needed: section 5 shows what happens without them.
* **Runtime.** The trace is a path that the iteration limit bounds (PathIsBounded), and
  the history alone explains every edge, the limit being the only
  exception (RoutesExplained); every entry that claims a dispatch is backed by the
  directory on disk (ArtifactsProveTrace); a completed dispatch is failed afterwards
  only where no edge matches its outputs, and one that claims an LLM has a completed
  call of its own (DispatchesExplained).
* **Execution.** No second run gets past validation while runs do not overlap, even
  when the first throws anywhere, and an `executed` record then means that every
  operation was done and tested and is still in the workspace (OneExecutionDone);
  however runs overlap, only targets of the approved plan are written, none of them
  forbidden or sensitive (ScopeKept); what a call returns is what record, guide and
  last log line say, also when a failed save was repeated (ReturnedIsRecorded).
  Overlapping runs do share an approval, but a run that passes validation finds only runs
  that are still executing, never one that is over (OnlyWhileExecuting); an `executed` record
  is then still true of every file that nobody else changed since (ExecutedUnlessChanged), and
  a create replaces a file only when its `stat` failed, when another run wrote the file, or when
  a developer was at work (CreatesSpareWhatWas). Whatever fails, each call of a run lowers a bound on those it has
  left (CallsRunOut).
* **Sessions.** Two runs answer, name and finish the same sessions while either may stop
  at any await: a session that names a confirmation has it stored and remembered
  (ConfirmedIsBacked); a completed session is that of a run all of whose workflows ran
  (CompletedRanChain: in particular none that a guard blocked); memory tells what happened
  (MemoryExplained); the copy of the current session differs from its record only in a save,
  after one that was cut, or after two runs overlapped (CopiesAgree); every run ends, after at
  most 4 * chain + 12 awaited calls, each of which brings it nearer (AwaitsRunOut).
* **Goal loop.** No route twice, no attempt that no decision named, and no end but by a
  decision for a reason, the workflow's own limit never being it (RoutesAreChosen);
  whatever write fails, files and log are a prefix of what happened
  (RecordsFollowAttempts).
* **Verification.** It fails exactly when a rule of docs/CODING_EXECUTOR.md:114 is
  broken, whatever the files are called; the codes are the broken rules unless a
  file name misleads the classifier (VerdictsAreRight).
* **Repair and scopes.** What was materialized and dry-run is what somebody approved;
  whatever is materialized, the later stages accept, and it touches nothing sensitive,
  deleted or outside the project; without an override, what passes the gate was negotiated
  (ApprovalsBind).
* **Export.** A safe export has a verified run behind it, and a patch that `patch:verify`
  passes brings the files git tracks of the source to the state that the tests left, without
  touching a name that `patch:verify` itself refuses (ExportsAreVerified). That is less than the
  run's own list, and less than all that was tested: section 5.
* **LLM.** Attempts, prompts and the record of a call tell one story, no environment sends
  a key to another provider, and an answer of the shape a model is told is accepted
  (CallsAccounted).
* **Packs, entry, catalogs.** A pack is completed only with every output once valid
  (PacksAreHonest); however tool calls overlap, a run's text goes once to the session that
  asked, and no real LLM runs unless the user's own words ask for one (EntryIsFaithful); an
  existing role is missed only by a lookup whose cache another one emptied, a name stands for
  one template unless creations crossed, and what `create` wrote is accepted by validator and
  loader (CatalogsAnswer). These exceptions do happen: section 5.
* **The shipped template.** research-feasibility's conditions cover what its schemas admit,
  so no completed dispatch is failed afterwards; the execution template's record passes its
  schema where the code gives a result (ShippedTemplateRuns).

*Why the bounds are enough.* The policy properties relate the steps of at most two
processes on one decision: two of each kind that reads before it writes, an
operation for each and one more, and one crash, since a crash only removes a
process; expiry needs one tick past the lifetime. Two decisions in the serial run
show that they do not mix. A template of four nodes has every way back the runtime
distinguishes (to itself, to an earlier node, to the start) and every condition
type; five iterations leave it room to take each of them again and to be stopped. Two
executions are what a shared approval needs; two faults are one in the work and one
in saving its failure. Two profile runs are what a write between another's read and write
needs; one stops anywhere, and what it left is what the other finds, as do the two sessions
that killed processes left pending. The goal plans are all that GoalPlanner makes; the
verdicts, environments, replies, outputs and entries are enumerated completely; two
collections, lookups and creations are what crossing needs. All bounds are constants
named `Max...`, and they are guards of actions, not state constraints.

*Fairness.* `PolicyApproval` assumes that a process that has begun an operation goes
on with it, because that code is synchronous; nothing is assumed of people, of
the replayed command, of the clock, or of crashes. `WorkflowRuntime` assumes that an
awaited call answers: file system calls do, and LLM requests and commands are ended
by their timeouts. `CodeChangeExecution` assumes it of each run by itself, since runs
do not wait for each other, and `ProfileSession` of each process, whose every awaited call
answers or throws. No fairness makes a failing call succeed. Deadlock is not
checked: each of these machines is meant to come to rest.

## 4. Proofs

Every invariant and action property of the passing runs but one is a theorem for every
value of the constants, under the named assumptions of the modules (`...Assumption`), which
TLC evaluates in every run; so is the refinement of `SingleUseApproval`. Those assumptions
say of what kind a constant is, and of a template or plan what the validator that ran
before guarantees. Further hypotheses are named in the theorem:

| Hypothesis | Theorems | Why |
|---|---|---|
| `Serial` (one plugin, one resolver, no runner) | SerialSingleUse, SerialRefinement, SerialFinal, SerialLog | the runs `policy_two_consumers` and `policy_two_resolvers` refute them without it |
| `IsFiniteSet(Procs)` | EachServedOnce | the bound is a number of processes |
| `~Overlap` | SerialSingleUse (execution), ExecutedMeansDone, CreatesTrustStat | two overlapping executions share an approval (section 5); ApprovalNeverReused, ExecutedThoughShared, CreatesOverwriteOnlyNews have the rest without it |
| `MaxEdits = 0` | ExecutedMeansDone, CreatesTrustStat | a developer, or a test command, may undo what was written, or create the file between `stat` and `writeFile`; ExecutedThoughShared and CreatesOverwriteOnlyNews have the rest |

Some theorems say more than a run asks: `SerialSingleUse` (policy) and `SerialFinal` spell
out what the refinement implies or says of the status only, and `CreatesTrustStat` is
CreatesSpareWhatWas with one exception left, the `stat` that failed, where there is nobody to
cause the others; the
execution's `SerialSingleUse` needs no `MaxEdits = 0`.

No theorem bounds the number of processes, runs, files, decisions, faults or repetitions.
Each proof has an inductive invariant, one lemma for each action and invariant
part that it can disturb, and a temporal step that puts them together. The invariant of a
proof was checked by TLC before it was proved.

**PolicyApproval_proofs.** `Typing`, `UsesAreApproved`: any number
of plugins, resolvers, runners, decisions and crashes. UseNeedsApproval is not
inductive: a process that read `approved` uses it several steps later, when the
file may say anything. The invariant `IInv` adds HeldFactsStayTrue. Its proof rests
on one lemma, `StepOfOne`: a step changes one process, and files only *grow* in the
sense of `FilesGrow` (an existing file keeps its call, the log keeps its lines),
so the facts other processes hold survive, and only those of the acting process
remain, one lemma per action. `TrailCovers` counts: releases and the processes that are
about to release are no more than the audit lines, and those with the processes about to
write one no more than the consumptions logged (`TInv`). `SerialSingleUse` and
`SerialRefinement` assume `Serial` and add `SInv`: at most one process is between reading
an approval and using it, and a decision was used only if its file says so. Each step of
the serial system then maps to one step of `SingleUseApproval` or to a stutter
(`AbstractStep`). `SerialFinal` follows from `SInv`: not only
the status but the whole record of a final decision stays. `SerialLog` adds `LInv`: between a
resolver's two writes the log is ahead of the file, between a consumer's two it is behind,
and where nobody is between two writes its last line is the file's status.

`EachServedOnce` is what remains of single use in every deployment. Its invariant `RInv`
rations an approval: while the file says it may be used, every plugin (runner) that is not
between reading the approval and consuming it may still get in once, whoever is inside closes
the file before it is inside again, and a runner that crashes inside leaves its share open,
which `crashes` pays for. So uses made, uses about to be made and shares still open are never
more than processes times approvals given, plus crashes (`Rationed`). An approval counts as
given with its second write, since a resolver logs it before the file says so (`Given`).

**WorkflowRuntime_proofs.** `Typing`, `BoundedPath`, `ArtifactsBackTrace`,
`Aligned`, for every template. BoundedRun alone is not inductive; StepsAligned holds
the measure: a running step satisfies `Len(trace) <= iteration * N + current - 1`,
because an edge that is not a back edge raises `current` and a back edge raises
`iteration`, and it says how far `disk` and `history` may be ahead of the trace, which
ArtifactsProveTrace needs. `Deterministic` and `DispatchesBacked` rest on `Explains`:
`values` is what the history implies, the latest output of any node that writes a key
(`ValuesAt`), and a longer history does not change what it implied before; every
completed dispatch record and every call belongs to a step of the history, in order.

**CodeChangeExecution_proofs.** `Typing`, `WritesStayInScope`, `ReturnsAreRecorded` for
any number of runs, overlapping or not; `SerialSingleUse` under `~Overlap`.
`IInv` adds to TypeOK, without any hypothesis: a run that executes holds the approved plan and what is left to
do of it (`InScope`), and each step of saving has the writes before it on disk
(`SavedInOrder`: the record when the guide is written, both when the line is
appended); a run that got past validation and is not executing any more has consumed the
approval, by its result or in the catch block (`ConsumedAfter`), which gives
`ApprovalNeverReused`; and `Truthful`, which gives `ExecutedThoughShared`: the operations left
are the tail of the plan, those before it are done unless there is trouble, where a later
operation on the same file decides what it holds (`LastOn`) and only files in `latest` count
(`Done`), so that a step of anybody else takes from the claim only the file it changes
(`OthersSpare`).
The serial theorems add to it: `SerialUse` that only one run is in progress and that the
approval is there exactly while a run executes; `Sole`, for `ExecutedMeansDone`, that what the
one run that executed has touched it was the last to change; `Checked`, for
`CreatesTrustStat`, that a file about to be created is absent or its `stat` had failed
(`Unseen`). `CreatesOverwriteOnlyNews` has it that where
this fails somebody has changed the file meanwhile (`CheckedOrOvertaken`). `RunsRunOut` needs no
invariant but the types: `CallsLeft` counts two calls for an operation and a save that is
tried twice, and what others do leaves a run's own variables alone (`OthersLeaveOwn`).

**GoalLoop_proofs.** `Typing`, `Records`, `Untried`, `Chooses`, for every set of plans,
every limit and every number of faults. RecordsFollowAttempts says what the disk may miss,
but not when: `Recorded` adds what files and log hold at each awaited call (while the
attempt is being saved, all but the last). UntriedRoutesOnly is about the attempts that
were made; `Chosen` says of the one to come that its route is untried, named by the last
decision, and that the plan has an attempt left, and `ChosenWhenNeeded` that this holds
before every attempt and while a retry is being recorded. `NextRouteUntried` needs the
least index of a nonempty set, which `NaturalOrder` gives. `Chooses` adds `EInv`: every
route that was followed is of the plan, `iteration` counts the retries and nothing else,
and an ending decision has its reason. So a retry would need more iterations than the plan
has attempts before the limit of the workflow were reached.

**ProfileSession_proofs.** `Typing`, `ConfirmationsBacked`, `CompletionRanChain`,
`MemoryTellsTruth`, `CopiesStayEqual`, `AwaitsAreBounded`, for any profiles, tasks, processes
and faults; one invariant for the six. The properties are about files, and a process that is stopped leaves
any prefix of its writes, so `IInv` says at each awaited call what a process holds
(`Locals`: what of its memory entries is still to be written, that the steps of its chain
ran up to one that was blocked, and that a session it calls completed had them all) and what
files already hold for it (`HeldIsBacked`: confirmation and scope memory, which only grow,
are there before a session names them). `OneInFlight` and `Copied` are for CopiesAgree: as
long as no two runs overlapped and nothing was cut, a copy differs from its record only for
the process that is about to write it. AwaitsAreBounded needs of `Locals` that a chain has no
more steps than workflows, that route memory has one record for a step at most, and where a
save goes on to.

**ExternalProject_proofs.** `ExportsVerified`, for any projects, .gitignore files, changes and
effects of test commands, any lists given to `patch:verify` and any number of edits of the
export. `EInv`: the copy and the report do not change after git was asked (`Reported`), the four
files come in order and stay until someone edits them (`InOrder`), and metadata, wherever it was
read, is of that report (`Told`). `RebuildsFromPatch` is the lemma about trees: a tracked file that an accepted patch does not
bring to the copy's state is one the run created, and then the answer is not "passed".

**Components_proofs.** The components that work alone.
`PacksHonest`: what a collection has in memory was so when it looked (`Witnessed`), and a
role's output was valid once for every task that counts as completed; `Alone` relates the
artifacts while one collection after another ran and none was stopped.
`ApprovalsAreBinding`: `RepairInv` follows the documents: each was made from one that
somebody built, and hash and approval fix all but what the findings name; `ScopeInv` keeps
that a confirmation is of its basis and an answer of the gate is what it would say again.
`CallsAreAccounted`: `LlmInv` has the prompt due at each attempt, the address and key of each
call and what the client remembers between two (`InMemory`).
`AnswersGoHome`: a result that waits in a session is one of its own, was
shown nowhere yet and, in a session without aborted turns, is of the turn that is being
answered (`Delivered`); a call that is served has what its user's words ask for.
`CatalogsAreRight`: until the cache is full, there is a reader that nobody's reset hit and
that has put there all it read (`Filling`); without crossing creations a name that was
checked is still free when it is written (`Uncrossed`); what a scaffold wrote names roles
that exist and has every field (`Made`), so validator and loader accept it (`MadeIsAccepted`).
`VerdictsHold`: the verdict is a function of results and task (`VerdictInv`), so the work is in
its operators: the rules as said of the evidence (`RulesOfEvidence`), what the classifier
makes of evidence and messages (`ClassifyFacts`), that there is a message exactly when a
limit or a criterion is broken (`SomeMessage`), and that a message has its rule's code where
it quotes no telling word (`PlainMessages`).

**NaturalOrder** has the lemmas about least and greatest numbers that these proofs share.

*Only model-checked.* `Terminates`, `TrailCompleted` and `RunsEnd`: liveness under fairness is
out of this prover's reach, as is ENABLED. What they rest on besides fairness is proved where
a run could go on for ever: `StepsAligned` bounds the steps of a workflow, `RunsRunOut` and
`AwaitsAreBounded` say that every step of an execution and of a profile run lowers a number.
That a run which is not over always has a step to take is what TLC adds. `ShippedTemplateRuns` is about one template and the
finite tables of the schemas: its constants have one value, and TLC evaluates it completely.
Induction over data is out of reach too; no property above needs it, because the models say
by conditions on indices which elements of a sequence count, not by recursion over it.

## 5. What the code does differently from its documents

Shown by a run:

* `policy_two_consumers`: docs/AGENT_POLICY.md:52 "An approved request can be consumed
  once." PolicyReplayRunner.ts:82 executes first, consumes after the command has
  ended and ignores whether that was allowed: a plugin can use the approval meanwhile.
* `policy_two_resolvers`: docs/AGENT_POLICY.md:53 "Rejected ... approvals cannot replay."
  An approve that read the request before a reject wrote it overwrites the rejection.
* `execution_patch`: docs/CODING_EXECUTOR.md:114 "diff or patch limits are exceeded". The limit is
  compared with a preview that was cut at 12,000 characters, so 20,000 never is exceeded.
* `session_gate`: docs/SCOPE_CONFIRMATION.md:11 calls the gate "the scope gate between
  negotiation and feasibility". ProfileWorkflowRunner.ts:334 counts its workflow as passed
  when it ran, whatever the gate answered: feasibility runs on a confirmation it blocks.
* `entry_overlap`: tests/OpenCodeWorkflowToolService.test.ts:78 "suppresses runtime node logs".
  mcp/agentflow-mcp-server.ts:125 does not await a call before it reads the next line, and the
  first of two overlapping runs to end gives the console back to both; if the second ends last,
  it puts the first one's replacement there for good.

Seen while modelling, with no run of their own:

* Every error of a `stat`, a transient one too, is taken for "does not exist"
  (CodeExecutor.ts:160), and a create without `overwrite` then replaces the file
  (docs/CODING_EXECUTOR.md:47): the exception `missed` of CreatesSpareWhatWas.
* The guard of execution-capable workflows looks for node types `execute` and `dryRun`
  (ProfileWorkflowRunner.ts:661), the workflows say `execution` and `executionDryRun`:
  external-project-fix executes without permission (docs/WORKFLOW_PROFILES.md:62 "By default it
  does not run CodeExecutor").
* Two overlapping `executeApprovedPlan` calls that share an approval both execute
  (CodeChangePlanExecutionExecutor.ts:81; README.md:280 "exactly once"); hence
  `Overlap = FALSE` in `execution_serial`. Both must have passed validation before either was over
  (OnlyWhileExecuting).
* A file created between `stat` and `writeFile` is overwritten (CodeExecutor.ts:66-77;
  docs/CODING_EXECUTOR.md:47); hence no editor in `CreatesTrustStat`, and
  the exceptions of CreatesSpareWhatWas.
* When git cannot be spawned for the diff, the rollback guide names neither a file nor
  the checkpoint, though files were written (CodeChangePlanExecutionExecutor.ts:104;
  docs/CODING_EXECUTOR.md:213, 225).
* The classifier takes words of quoted file names for rules (FailureClassifier.ts:40;
  docs/CODING_EXECUTOR.md:109); hence the condition in CodesAreBroken.
* A stored call keeps its paths in command order, the retry's are sorted, and the two are
  compared as JSON (PolicyApprovalStore.ts:107; docs/OPENCODE_ADAPTER.md:137 "a single exact
  replay"): the exact retry may be refused. UsedAsApproved is about what is let through.
* A file that differed before the run and that the run rewrites is not counted as its own
  (CodeExecutor.ts:105, VerificationEvidenceBuilder.ts:37; docs/CODING_EXECUTOR.md:114
  "unexpected files change").
* PolicyTimelineService.ts:197 has no case for an expired approval and shows `unknown`.
* A blocked or early-failed execution has a record on disk, but its node fails: the record's
  undefined keys are refused (ExecutionRecordStore.ts:58, SchemaValidator.ts:569).
* A repair plan's id covers task, codes, targets and reason, neither the commands nor the
  forbidden files: an approval survives a change of those. `.env.local` stays a target
  although it is forbidden, so a plan may be approved that can never be materialized.
  Repair approvals are never consumed.
* The adaptive controller compares the route that failed with the budget, not the next
  one (AdaptiveExecutionController.ts:61; docs/GOAL_DRIVEN_EXECUTION.md:12 "the next route
  exceeds cost/risk budget"); only a plan that a caller supplies has a route above its budget.
* A negotiation's id covers task, goal and current state, so a confirmation passes the gate for
  a renegotiation with other constraints, even of another module (README.md:238 "bound to the
  negotiation"): ScopeStaysNegotiated leaves out constraints that name a module.
* The first file that any constraint names, a forbidden one included, gives the
  allowed module; no answer makes up for a missing module.
* AGENTFLOW_LLM_MAX_RETRIES is read by the smoke tester only. A retry after a failed
  transport sends the repair prompt alone, with an older text or none.
* The export may hold what a test command changed outside the allowed files; a new untracked
  file is missing from the patch, which the export reports as a warning; only `.env` is
  left out of an import. `patch:verify` does not know the run's forbidden files
  (PatchVerifier.ts:46, cli/patch-verify.ts:9): without `--forbiddenFiles` it passes a patch that
  touches `.env.local`. What .gitignore names is in no patch, though the tests that verified the
  change ran with it; VerifiedPatchRebuilds is therefore about tracked files.
* A native pack without native tasks is completed at once.
* The interceptor sets `allowLLM=true` when the entry's flag, profile or command asks for it
  (AgentFlowWorkflowInterceptorCore.ts:64), though docs/OPENCODE_ADAPTER.md:63 says "The
  dispatcher call always uses `allowExecution=false` and `allowLLM=false`"
  (docs/OPENCODE_MCP_AGENTFLOW.md:71 likewise): EntryIsFaithful follows the code, no real LLM
  but where the user's words ask for one.
* `/workflow` overrides a profile and an LLM flag that its text names; a late result after an
  aborted turn replaces the session's next text.
* The validator looks up the presets of a template all at once
  (WorkflowTemplateValidator.ts:17) in a cache that each lookup empties before it fills it
  (RoleCatalog.ts:23): one of them may be told that an existing role is not there, and a sound
  template is refused. When all are done the cache is whole again, unless a file was bad.
* Two creations of one name into two files that scan before either writes
  (TemplateCreateService.ts:41) both succeed (tests/TemplateCreateService.test.ts:33 "fails on
  template name conflict"); no search by that name finds either, unless a file is called so.
* The registry finds hand-written templates whose nodes name a `rolePreset`
  (workflows/abcde-basic.json:26, workflows/agent-workforce-task-solving.json:26), and
  WorkflowLoader.ts:87, which resolves none, refuses them; CreatedIsReadable is therefore about
  templates that `create` wrote.
* `template:create --force` of a file that is spelled otherwise than the registry spells it
  conflicts with itself (TemplateCreateService.ts:56).

## 6. What is left out

* Role speech and tool call classification are functions on text without state; mock
  outputs are data; timelines, explanations and formatters only read. Where a model needs what
  they decide, it is an input: which calls need approval, which profile a task is routed to.
* `OpenCodeSubAgentBridge` inspects a configuration and writes a note; of the MCP server
  only the path of a workflow tool call is modelled; of the schemas only those that nodes of
  shipped templates have.
* The command line, the Python prototype and the plugin directory's copy of the runtime:
  adapters around, or older versions of, what is modelled.
* Details of definitions that no property tells apart: the provider and model check of a
  dispatch (SubAgentDispatcher.ts:143; `Backed` allows more), `contextOverrides`
  (WorkflowRunner.ts:67), `request.inputPath` (ProfileWorkflowRunner.ts:642), two of the coding
  profile's four follow-ups. A refused scope memory (ProjectMemoryStore.ts:107) ends a run at
  the place where `Stop` may.
* A command whose child ignores the SIGTERM of CommandRunner: RunsEnd takes it that commands
  end by their timeout.
* Queries of the stores (`list`, `get`): they change nothing.
* Fuller composition: a profile run's workflows are one step each in `ProfileSession`, an
  external change is one step in `ExternalProject`, an entry's run is one step between
  `CallTool` and `EndRun`. Their own steps are checked in their own module; the product of
  the state spaces is out of TLC's reach, and nothing but files and results passes between.

## 7. Plan

Done: all modules of section 2 with their runs; a theorem for every safety and action
property of the passing runs except ShippedTemplateRuns; where a theorem has a hypothesis that a
deployment may break, a second one that says what holds without it (EachServedOnce,
ApprovalNeverReused, ExecutedThoughShared, CreatesOverwriteOnlyNews); and the safety
half of RunsEnd (RunsRunOut, AwaitsAreBounded).

What could still be said: which of two overlapping executions a file's content is owed to when
both claim it; a variant for the policy processes, whose operations are straight lines of three
steps; and the liveness properties themselves, with a prover that has ENABLED.

## 8. Running it

    tlc -config policy_shared.cfg MCPolicyApproval.tla
    tlapm PolicyApproval_proofs.tla

and so on for the other configurations: `policy_*` belong to `MCPolicyApproval`,
`runtime` to `MCWorkflowRuntime`, `execution_*` to `MCCodeChangeExecution`, `session*` to
`MCProfileSession`, `components` to `MCComponents`, `entry_overlap` to `OpenCodeEntry`. The longest run takes one to two minutes,
each module of proofs up to five when checked from nothing.
