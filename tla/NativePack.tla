------------------------------ MODULE NativePack ------------------------------
(***************************************************************************)
(* A native subagent workflow pack (core/opencode): the builder turns the  *)
(* nodes of a profile's workflow into tasks, OpenCode's agents write the   *)
(* outputs in their own time, and collections, several at once perhaps,    *)
(* read what is there and write manifest, trace and summary.               *)
(***************************************************************************)
EXTENDS Integers, Sequences

CONSTANTS
  PackWorkflows,  \* roles of the nodes isNativeWorkflowPackNode leaves, in the template's order
  Collectors,     \* collections, each made once
  NoPack,
  MaxStops        \* bound on collections that stop or tear a file

PackRoles == {"Planner", "Debater", "PlannerRevision", "Executor", "Verifier"}
TaskStates == {"ready", "pending", "completed", "failed"}
Manifests ==
  [tasks : Seq(TaskStates), status : {"created", "partially_completed", "completed", "failed", "torn"}]

\* NoPack is a value of its own: no artifact and no status.
ASSUME PackAssumption ==
  /\ PackWorkflows \subseteq Seq(PackRoles)
  /\ MaxStops \in Nat
  /\ NoPack \notin Manifests \union TaskStates \union {"valid", "invalid"}

VARIABLES
  tasks,      \* of the pack: [role, status, inputs]
  manifest, packTrace, packSummary,  \* artifacts: statuses of the tasks and of the pack
  outputs,    \* output.json by role: NoPack, "valid", or "invalid": half written, or not of its schema
  everValid,  \* roles whose output was valid at some time (history)
  collecting, \* what each collection has in memory
  packStops, overlapped

packVars == <<tasks, manifest, packTrace, packSummary, outputs, everValid, collecting, packStops, overlapped>>

\* dependenciesFor, before the roles that are not in the workflow are dropped.
DependsOn ==
  [role \in PackRoles |->
     CASE role = "Planner" -> {}
       [] role = "Debater" -> {"Planner"}
       [] role = "PlannerRevision" -> {"Planner", "Debater"}
       [] role = "Executor" -> {"PlannerRevision"}
       [] role = "Verifier" -> {"Executor"}]

RolesOf(nodes) == {nodes[i] : i \in 1 .. Len(nodes)}

\* Faulty variant: an input names the outputs of all dependencies.
InputsOfAll(nodes, i) == DependsOn[nodes[i]] \intersect RolesOf(nodes)

\* buildInput: the dependencies whose output path an earlier task gives; the path
\* of the others is null.
InputsOf(nodes, i) == DependsOn[nodes[i]] \intersect RolesOf(SubSeq(nodes, 1, i - 1))

TaskOf(nodes, i) ==
  [role |-> nodes[i], inputs |-> InputsOf(nodes, i),
   status |-> IF DependsOn[nodes[i]] \intersect RolesOf(nodes) = {} THEN "ready" ELSE "pending"]

Statuses(list) == [i \in 1 .. Len(list) |-> list[i].status]

\* Faulty variant: a failed task does not count.
PackStatusLenient(list) ==
  IF \A i \in 1 .. Len(list) : list[i] # "pending" THEN "completed" ELSE "partially_completed"

PackStatus(list) ==
  IF \E i \in 1 .. Len(list) : list[i] = "failed" THEN "failed"
  ELSE IF \A i \in 1 .. Len(list) : list[i] = "completed" THEN "completed"
  ELSE "partially_completed"

Idle == [at |-> "idle", statuses |-> << >>]
Over == [at |-> "over", statuses |-> << >>]
UnderWay == {c \in Collectors : collecting[c].at \in {"look", "manifest", "trace", "summary"}}

PackInit ==
  /\ tasks = << >> /\ manifest = NoPack /\ packTrace = NoPack /\ packSummary = NoPack
  /\ outputs = [r \in PackRoles |-> NoPack] /\ everValid = {}
  /\ collecting = [c \in Collectors |-> Idle]
  /\ packStops = 0 /\ overlapped = FALSE

\* The manifest is the last file that is written, and the runId is told after it.
BuildPack(nodes) ==
  /\ manifest = NoPack
  /\ tasks' = [i \in 1 .. Len(nodes) |-> TaskOf(nodes, i)]
  /\ manifest' = [tasks |-> Statuses(tasks'), status |-> "created"]
  /\ UNCHANGED <<packTrace, packSummary, outputs, everValid, collecting, packStops, overlapped>>

\* An agent writes its output, or writes it again.
WriteOutput(role, state) ==
  /\ role \in {tasks[i].role : i \in 1 .. Len(tasks)}
  /\ outputs[role] # state
  /\ outputs' = [outputs EXCEPT ![role] = state]
  /\ everValid' = IF state = "valid" THEN everValid \union {role} ELSE everValid
  /\ UNCHANGED <<tasks, manifest, packTrace, packSummary, collecting, packStops, overlapped>>

\* A manifest that cannot be parsed makes collect throw.
StartCollect(c) ==
  /\ collecting[c].at = "idle" /\ manifest # NoPack /\ manifest.status # "torn"
  /\ collecting' = [collecting EXCEPT ![c] = [at |-> "look", statuses |-> << >>]]
  /\ overlapped' = (overlapped \/ UnderWay # {})
  /\ UNCHANGED <<tasks, manifest, packTrace, packSummary, outputs, everValid, packStops>>

\* Faulty variant: an output that is there is good.
StatusUnvalidated(role) == IF outputs[role] = NoPack THEN "pending" ELSE "completed"

StatusOf(role) ==
  IF outputs[role] = NoPack THEN "pending" ELSE IF outputs[role] = "valid" THEN "completed" ELSE "failed"

\* The outputs are read one by one.
Look(c) ==
  LET seen == collecting[c].statuses IN
    /\ collecting[c].at = "look"
    /\ IF Len(seen) < Len(tasks)
       THEN collecting' = [collecting EXCEPT ![c].statuses = Append(seen, StatusOf(tasks[Len(seen) + 1].role))]
       ELSE collecting' = [collecting EXCEPT ![c].at = "manifest"]
    /\ UNCHANGED <<tasks, manifest, packTrace, packSummary, outputs, everValid, packStops, overlapped>>

\* Manifest, trace and summary are three writes.
SavePack(c) ==
  LET list == collecting[c].statuses IN
    /\ \/ /\ collecting[c].at = "manifest"
          /\ manifest' = [tasks |-> list, status |-> PackStatus(list)]
          /\ collecting' = [collecting EXCEPT ![c].at = "trace"]
          /\ UNCHANGED <<packTrace, packSummary>>
       \/ /\ collecting[c].at = "trace"
          /\ packTrace' = list
          /\ collecting' = [collecting EXCEPT ![c].at = "summary"]
          /\ UNCHANGED <<manifest, packSummary>>
       \/ /\ collecting[c].at = "summary"
          /\ packSummary' = PackStatus(list)
          /\ collecting' = [collecting EXCEPT ![c] = Over]
          /\ UNCHANGED <<manifest, packTrace>>
    /\ UNCHANGED <<tasks, outputs, everValid, packStops, overlapped>>

\* A write fails or the process dies, perhaps with the manifest truncated.
StopCollect(c) ==
  /\ collecting[c].at \in {"manifest", "trace", "summary"} /\ packStops < MaxStops
  /\ packStops' = packStops + 1
  /\ collecting' = [collecting EXCEPT ![c] = Over]
  /\ \/ UNCHANGED manifest
     \/ collecting[c].at = "manifest" /\ manifest' = [tasks |-> << >>, status |-> "torn"]
  /\ UNCHANGED <<tasks, packTrace, packSummary, outputs, everValid, overlapped>>

PackNext ==
  \/ \E workflow \in PackWorkflows : BuildPack(workflow)
  \/ \E role \in PackRoles, state \in {"invalid", "valid"} : WriteOutput(role, state)
  \/ \E c \in Collectors : StartCollect(c) \/ Look(c) \/ SavePack(c) \/ StopCollect(c)

PackSpec == PackInit /\ [][PackNext]_packVars
-----------------------------------------------------------------------------
(* Properties.                                                             *)

\* A pack is told to be completed only when every one of its agents had once
\* written a valid output, however outputs were rewritten and collections crossed;
\* and an agent is never pointed at an output that no task before its own writes.
CompletedWasValid ==
  /\ manifest # NoPack /\ manifest.status = "completed" =>
       \A i \in 1 .. Len(tasks) : tasks[i].role \in everValid
  /\ packSummary = "completed" => \A i \in 1 .. Len(tasks) : tasks[i].role \in everValid
  /\ \A i \in 1 .. Len(tasks) : tasks[i].inputs \subseteq {tasks[j].role : j \in 1 .. i - 1}

\* While no collection is under way, none was stopped and none crossed another, the
\* three artifacts tell of one and the same collection.
ArtifactsAgree ==
  /\ ~overlapped /\ packStops = 0 /\ packSummary # NoPack /\ UnderWay = {}
  => manifest = [tasks |-> packTrace, status |-> packSummary]

\* The two together: what the artifacts of a pack say of its agents is so, and they
\* say the same.
PacksAreHonest == CompletedWasValid /\ ArtifactsAgree
=============================================================================
