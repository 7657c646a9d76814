--------------------------- MODULE Components_proofs ---------------------------
(***************************************************************************)
(* Proofs about small components that work alone: native packs, for every  *)
(* workflow, any number of collections and any number of stops; repair     *)
(* plans and their approvals, for all reports, any number of decisions and *)
(* any lapse of time; task negotiation and the scope gate, for all briefs  *)
(* and rewrites; LLM requests, for every environment and run of replies;   *)
(* the OpenCode entry, for any sessions and tool calls; the catalogs of    *)
(* roles and templates, for any files and creators; verdicts, for all      *)
(* results, tasks and names.  Each part is an inductive invariant, a lemma *)
(* for each action, and the theorem.                                       *)
(***************************************************************************)
EXTENDS NativePack, Approvals, LlmRequest, OpenCodeEntry, Catalogs, Verdict, NaturalOrder, SequenceTheorems, TLAPS

-----------------------------------------------------------------------------
(* Native packs: the inductive invariant.                                  *)

PackTasks == [role : PackRoles, inputs : SUBSET PackRoles, status : TaskStates]
Stages == {"idle", "look", "manifest", "trace", "summary", "over"}
LateStages == {"manifest", "trace", "summary"}

PackTyped ==
  /\ tasks \in Seq(PackTasks)
  /\ manifest \in Manifests \union {NoPack}
  /\ outputs \in [PackRoles -> {NoPack, "valid", "invalid"}]
  /\ collecting \in [Collectors -> [at : Stages, statuses : Seq(TaskStates)]]
  /\ packStops \in Nat /\ overlapped \in BOOLEAN

\* Nothing is collected before the manifest is there, and the tasks are made once.
Unbuilt ==
  manifest = NoPack =>
    /\ tasks = << >> /\ packSummary = NoPack
    /\ \A c \in Collectors : collecting[c].at = "idle"

EarlierInputs(list) ==
  \A i \in 1 .. Len(list) : list[i].inputs \subseteq {list[j].role : j \in 1 .. i - 1}
InputsGiven == EarlierInputs(tasks)

OnceValid(role) == role \in everValid
AllValid == \A i \in 1 .. Len(tasks) : OnceValid(tasks[i].role)

\* What a collection has in memory was so when it looked.
Looked(memory) ==
  /\ Len(memory.statuses) <= Len(tasks)
  /\ \A i \in 1 .. Len(memory.statuses) :
       memory.statuses[i] = "completed" => OnceValid(tasks[i].role)
  /\ memory.at \in LateStages => Len(memory.statuses) = Len(tasks)

Witnessed ==
  /\ \A r \in PackRoles : outputs[r] = "valid" => OnceValid(r)
  /\ \A c \in Collectors : Looked(collecting[c])
  /\ manifest # NoPack /\ manifest.status = "completed" => AllValid
  /\ packSummary = "completed" => AllValid

\* A lone collection that was not stopped has written what it has in memory.
SavedSoFar(memory) ==
  /\ memory.at \in {"trace", "summary"} =>
       manifest = [tasks |-> memory.statuses, status |-> PackStatus(memory.statuses)]
  /\ memory.at = "summary" => packTrace = memory.statuses

Alone ==
  ~overlapped /\ packStops = 0 =>
    /\ \A c, d \in UnderWay : c = d
    /\ \A c \in Collectors : SavedSoFar(collecting[c])
    /\ packSummary # NoPack /\ UnderWay = {} =>
         manifest = [tasks |-> packTrace, status |-> packSummary]

PackInv == PackTyped /\ Unbuilt /\ InputsGiven /\ Witnessed /\ Alone

-----------------------------------------------------------------------------
(* Native packs: what the operators return.                                *)

LEMMA PackStatusFacts ==
  ASSUME NEW list \in Seq(TaskStates)
  PROVE  /\ PackStatus(list) \in {"failed", "completed", "partially_completed"}
         /\ PackStatus(list) = "completed" =>
              \A i \in 1 .. Len(list) : list[i] = "completed"
         /\ [tasks |-> list, status |-> PackStatus(list)] \in Manifests
<1>1. PackStatus(list) \in {"failed", "completed", "partially_completed"}
  BY DEF PackStatus
<1>2. PackStatus(list) = "completed" => \A i \in 1 .. Len(list) : list[i] = "completed"
  BY DEF PackStatus
<1> QED BY <1>1, <1>2 DEF Manifests

\* The task of a node is given the outputs of earlier tasks only.
LEMMA TasksOfNodes ==
  ASSUME NEW nodes \in Seq(PackRoles), NEW list, list = [i \in 1 .. Len(nodes) |-> TaskOf(nodes, i)]
  PROVE  /\ list \in Seq(PackTasks) /\ Len(list) = Len(nodes)
         /\ EarlierInputs(list) /\ Statuses(list) \in Seq(TaskStates)
<1>1. Len(nodes) \in Nat /\ \A i \in 1 .. Len(nodes) : nodes[i] \in PackRoles
  BY ElementOfSeq
<1>2. ASSUME NEW i \in 1 .. Len(nodes)
      PROVE  /\ TaskOf(nodes, i) \in PackTasks /\ TaskOf(nodes, i).role = nodes[i]
             /\ TaskOf(nodes, i).inputs \subseteq {nodes[j] : j \in 1 .. i - 1}
  <2>1. RolesOf(SubSeq(nodes, 1, i - 1)) = {nodes[j] : j \in 1 .. i - 1}
    <3>1. /\ SubSeq(nodes, 1, i - 1) \in Seq(PackRoles) /\ Len(SubSeq(nodes, 1, i - 1)) = i - 1
          /\ \A j \in 1 .. i - 1 : SubSeq(nodes, 1, i - 1)[j] = nodes[j]
      BY <1>1, SubSeqProperties
    <3> QED BY <3>1 DEF RolesOf
  <2>2. {nodes[j] : j \in 1 .. i - 1} \subseteq PackRoles
    BY <1>1
  <2> QED BY <1>1, <2>1, <2>2 DEF TaskOf, InputsOf, PackTasks, TaskStates
<1>3. list \in Seq(PackTasks) /\ Len(list) = Len(nodes)
  BY <1>1, <1>2
<1>4. \A i \in 1 .. Len(list) : list[i].role = nodes[i] /\ list[i] \in PackTasks
  BY <1>2, <1>3
<1>5. ASSUME NEW i \in 1 .. Len(list)
      PROVE  list[i].inputs \subseteq {list[j].role : j \in 1 .. i - 1}
  <2>1. \A j \in 1 .. i - 1 : nodes[j] = list[j].role
    BY <1>1, <1>3, <1>4
  <2>2. i \in 1 .. Len(nodes) /\ list[i] = TaskOf(nodes, i)
    BY <1>3
  <2>3. list[i].inputs \subseteq {nodes[j] : j \in 1 .. i - 1}
    BY <1>2, <2>2
  <2>4. ASSUME NEW x \in list[i].inputs PROVE x \in {list[j].role : j \in 1 .. i - 1}
    <3>1. PICK j \in 1 .. i - 1 : x = nodes[j]
      BY <2>3
    <3> QED BY <2>1, <3>1
  <2> QED BY <2>4
<1>6. Statuses(list) \in Seq(TaskStates)
  BY <1>1, <1>3, <1>4 DEF Statuses, PackTasks
<1> QED BY <1>3, <1>5, <1>6 DEF EarlierInputs

\* A step of one collection.
LEMMA OneMemory ==
  ASSUME PackTyped, NEW c \in Collectors, NEW m \in [at : Stages, statuses : Seq(TaskStates)],
         collecting' = [collecting EXCEPT ![c] = m]
  PROVE  /\ collecting' \in [Collectors -> [at : Stages, statuses : Seq(TaskStates)]]
         /\ collecting'[c] = m
         /\ \A d \in Collectors \ {c} : collecting'[d] = collecting[d]
  BY DEF PackTyped

LEMMA MemoryTyped ==
  ASSUME PackTyped, NEW c \in Collectors
  PROVE  /\ collecting[c] = [at |-> collecting[c].at, statuses |-> collecting[c].statuses]
         /\ collecting[c].at \in Stages /\ collecting[c].statuses \in Seq(TaskStates)
         /\ Len(collecting[c].statuses) \in Nat /\ Len(tasks) \in Nat
  BY DEF PackTyped

LEMMA ManifestIsNone == \A m \in Manifests : m # NoPack
  BY PackAssumption

-----------------------------------------------------------------------------
(* Native packs: the steps.                                                *)

LEMMA StepBuild ==
  ASSUME PackInv, NEW nodes \in PackWorkflows, BuildPack(nodes)
  PROVE  PackInv'
<1>1. /\ nodes \in Seq(PackRoles)
      /\ manifest' = [tasks |-> Statuses(tasks'), status |-> "created"]
      /\ UNCHANGED <<packTrace, packSummary, outputs, everValid, collecting, packStops, overlapped>>
  BY PackAssumption DEF BuildPack
<1>2. /\ tasks = << >> /\ packSummary = NoPack
      /\ \A c \in Collectors : collecting[c].at = "idle"
  BY DEF BuildPack, PackInv, Unbuilt
<1>3. tasks' \in Seq(PackTasks) /\ InputsGiven' /\ Statuses(tasks') \in Seq(TaskStates)
  <2>1. PICK list : list = tasks' /\ list = [i \in 1 .. Len(nodes) |-> TaskOf(nodes, i)]
    BY DEF BuildPack
  <2>2. list \in Seq(PackTasks) /\ Statuses(list) \in Seq(TaskStates) /\ EarlierInputs(list)
    BY <1>1, <2>1, TasksOfNodes
  <2>3. InputsGiven'
    BY <2>1, <2>2 DEF InputsGiven
  <2> QED BY <2>1, <2>2, <2>3
<1>4. manifest' \in Manifests /\ manifest' # NoPack /\ manifest'.status = "created"
  <2>1. manifest' \in Manifests
    BY <1>1, <1>3 DEF Manifests
  <2> QED BY <1>1, <2>1, ManifestIsNone
<1>5. PackTyped'
  BY <1>1, <1>3, <1>4 DEF PackInv, PackTyped
<1>6. ASSUME NEW c \in Collectors PROVE Looked(collecting[c])'
  <2>1. Len(collecting[c].statuses) = 0
    BY <1>2, MemoryTyped DEF PackInv, Witnessed, Looked
  <2>2. Len(tasks') \in Nat
    BY <1>3
  <2> QED BY <1>1, <1>2, <2>1, <2>2 DEF Looked, LateStages
<1>7. Witnessed'
  <2>1. packSummary' # "completed"
    BY <1>1, <1>2, PackAssumption DEF TaskStates
  <2> QED BY <1>1, <1>4, <1>6, <2>1 DEF PackInv, Witnessed, OnceValid
<1>8. Alone'
  BY <1>1, <1>2 DEF Alone, UnderWay, SavedSoFar
<1>9. Unbuilt'
  BY <1>4 DEF Unbuilt
<1> QED BY <1>3, <1>5, <1>7, <1>8, <1>9 DEF PackInv

LEMMA StepWrite ==
  ASSUME PackInv, NEW role \in PackRoles, NEW state \in {"invalid", "valid"}, WriteOutput(role, state)
  PROVE  PackInv'
<1>1. /\ UNCHANGED <<tasks, manifest, packTrace, packSummary, collecting, packStops, overlapped>>
      /\ outputs' = [outputs EXCEPT ![role] = state]
      /\ everValid \subseteq everValid' /\ (state = "valid" => role \in everValid')
  BY DEF WriteOutput
<1>2. \A r : OnceValid(r) => OnceValid(r)'
  BY <1>1 DEF OnceValid
<1>3. PackTyped'
  BY <1>1 DEF PackInv, PackTyped
<1>4. AllValid => AllValid'
  BY <1>1, <1>2 DEF AllValid, OnceValid
<1>5. \A c \in Collectors : Looked(collecting[c])'
  BY <1>1, <1>2 DEF PackInv, Witnessed, Looked, OnceValid
<1>6. \A r \in PackRoles : outputs'[r] = "valid" => OnceValid(r)'
  BY <1>1, <1>2 DEF PackInv, PackTyped, Witnessed, OnceValid
<1>7. Witnessed'
  BY <1>1, <1>4, <1>5, <1>6 DEF PackInv, Witnessed
<1>8. Unbuilt' /\ InputsGiven' /\ Alone'
  BY <1>1 DEF PackInv, Unbuilt, InputsGiven, Alone, UnderWay, SavedSoFar, PackStatus
<1> QED BY <1>3, <1>7, <1>8 DEF PackInv

\* Two collections at once mark the run as crossed.
LEMMA StepStart ==
  ASSUME PackInv, NEW c \in Collectors, StartCollect(c)
  PROVE  PackInv'
<1> DEFINE m == [at |-> "look", statuses |-> << >>]
<1>1. /\ UNCHANGED <<tasks, manifest, packTrace, packSummary, outputs, everValid, packStops>>
      /\ manifest # NoPack /\ overlapped' = (overlapped \/ UnderWay # {})
      /\ collecting' = [collecting EXCEPT ![c] = m] /\ m \in [at : Stages, statuses : Seq(TaskStates)]
  BY DEF StartCollect, Stages
<1>2. /\ collecting' \in [Collectors -> [at : Stages, statuses : Seq(TaskStates)]]
      /\ collecting'[c] = m /\ \A d \in Collectors \ {c} : collecting'[d] = collecting[d]
  BY <1>1, OneMemory DEF PackInv
<1>3. PackTyped'
  BY <1>1, <1>2 DEF PackInv, PackTyped
<1>4. \A d \in Collectors : Looked(collecting[d])'
  <2>1. Looked(m)'
    BY <1>1, <1>3 DEF Looked, LateStages, PackTyped
  <2>2. ASSUME NEW d \in Collectors \ {c} PROVE Looked(collecting[d])'
    BY <1>1, <1>2 DEF PackInv, Witnessed, Looked, OnceValid
  <2> QED BY <1>2, <2>1, <2>2
<1>5. Witnessed'
  BY <1>1, <1>4 DEF PackInv, Witnessed, AllValid, OnceValid
<1>6. Alone'
  <2> SUFFICES ASSUME ~overlapped', packStops' = 0
               PROVE  /\ \A d, e \in UnderWay' : d = e
                      /\ \A d \in Collectors : SavedSoFar(collecting[d])'
                      /\ UnderWay' # {}
    BY DEF Alone
  <2>1. ~overlapped /\ UnderWay = {}
    BY <1>1
  <2>2. UnderWay' = {c}
    <3>1. \A d \in Collectors \ {c} : d \notin UnderWay'
      BY <1>2, <2>1 DEF UnderWay
    <3>2. c \in UnderWay' /\ UnderWay' \subseteq Collectors
      BY <1>2 DEF UnderWay
    <3> QED BY <3>1, <3>2
  <2>3. \A d \in Collectors : SavedSoFar(collecting[d])'
    BY <1>1, <1>2, <2>1 DEF UnderWay, SavedSoFar
  <2> QED BY <2>2, <2>3
<1>7. Unbuilt' /\ InputsGiven'
  BY <1>1 DEF PackInv, Unbuilt, InputsGiven
<1> QED BY <1>3, <1>5, <1>6, <1>7 DEF PackInv

\* A collection under way has a manifest, and is the only one if none crossed.
LEMMA WayFacts ==
  ASSUME PackInv, NEW c \in Collectors, collecting[c].at \in {"look"} \union LateStages
  PROVE  /\ manifest # NoPack /\ c \in UnderWay
         /\ ~overlapped /\ packStops = 0 =>
              /\ \A d \in Collectors \ {c} : d \notin UnderWay
              /\ \A d \in Collectors : SavedSoFar(collecting[d])
  BY DEF PackInv, Unbuilt, Alone, UnderWay, LateStages

\* An output that is read as completed is valid just then.
LEMMA StepLook ==
  ASSUME PackInv, NEW c \in Collectors, Look(c)
  PROVE  PackInv'
<1> DEFINE seen == collecting[c].statuses
           next == StatusOf(tasks[Len(seen) + 1].role)
<1>1. /\ collecting[c].at = "look"
      /\ UNCHANGED <<tasks, manifest, packTrace, packSummary, outputs, everValid, packStops, overlapped>>
      /\ seen \in Seq(TaskStates) /\ Len(seen) \in Nat /\ Len(tasks) \in Nat
  BY MemoryTyped DEF Look, PackInv
<1>2. PICK m \in [at : Stages, statuses : Seq(TaskStates)] :
        /\ collecting' = [collecting EXCEPT ![c] = m]
        /\ m.at \in {"look", "manifest"} /\ Looked(m)
  <2>1. CASE Len(seen) < Len(tasks)
    <3> DEFINE m == [at |-> "look", statuses |-> Append(seen, next)]
    <3>1. collecting' = [collecting EXCEPT ![c] = m]
      BY <1>1, <2>1, MemoryTyped DEF Look, PackInv, PackTyped
    <3>2. next \in TaskStates /\ (next = "completed" => OnceValid(tasks[Len(seen) + 1].role))
      <4>1. tasks[Len(seen) + 1] \in PackTasks
        BY <1>1, <2>1, ElementOfSeq DEF PackInv, PackTyped
      <4>2. tasks[Len(seen) + 1].role \in PackRoles
        BY <4>1 DEF PackTasks
      <4> QED BY <4>2 DEF PackInv, Witnessed, StatusOf, TaskStates
    <3>3. /\ Append(seen, next) \in Seq(TaskStates) /\ Len(Append(seen, next)) = Len(seen) + 1
          /\ \A i \in 1 .. Len(seen) : Append(seen, next)[i] = seen[i]
          /\ Append(seen, next)[Len(seen) + 1] = next
      BY <1>1, <3>2, AppendProperties
    <3>4. \A i \in 1 .. Len(seen) : seen[i] = "completed" => OnceValid(tasks[i].role)
      BY DEF PackInv, Witnessed, Looked
    <3>5. ASSUME NEW i \in 1 .. Len(Append(seen, next)), Append(seen, next)[i] = "completed"
          PROVE  OnceValid(tasks[i].role)
      <4>1. i \in 1 .. Len(seen) \/ i = Len(seen) + 1
        BY <1>1, <3>3
      <4> QED BY <3>2, <3>3, <3>4, <3>5, <4>1
    <3>6. Looked(m)
      BY <1>1, <2>1, <3>3, <3>5 DEF Looked, LateStages
    <3>7. m \in [at : Stages, statuses : Seq(TaskStates)] /\ m.at \in {"look", "manifest"}
      BY <3>3 DEF Stages
    <3> HIDE DEF m
    <3> QED BY <3>1, <3>6, <3>7
  <2>2. CASE ~(Len(seen) < Len(tasks))
    <3> DEFINE m == [at |-> "manifest", statuses |-> seen]
    <3>1. collecting' = [collecting EXCEPT ![c] = m]
      BY <1>1, <2>2, MemoryTyped DEF Look, PackInv, PackTyped
    <3>2. Looked(collecting[c])
      BY DEF PackInv, Witnessed
    <3>3. Looked(m)
      BY <1>1, <2>2, <3>2 DEF Looked
    <3>4. m \in [at : Stages, statuses : Seq(TaskStates)] /\ m.at \in {"look", "manifest"}
      BY <1>1 DEF Stages
    <3> HIDE DEF m
    <3> QED BY <3>1, <3>3, <3>4
  <2> QED BY <2>1, <2>2
<1>3. /\ collecting' \in [Collectors -> [at : Stages, statuses : Seq(TaskStates)]]
      /\ collecting'[c] = m /\ \A d \in Collectors \ {c} : collecting'[d] = collecting[d]
  BY <1>2, OneMemory DEF PackInv
<1>4. PackTyped'
  BY <1>1, <1>3 DEF PackInv, PackTyped
<1>5. \A d \in Collectors : Looked(collecting[d])'
  <2>1. Looked(collecting[c])'
    BY <1>1, <1>2, <1>3 DEF Looked, OnceValid
  <2>2. ASSUME NEW d \in Collectors \ {c} PROVE Looked(collecting[d])'
    BY <1>1, <1>3 DEF PackInv, Witnessed, Looked, OnceValid
  <2> QED BY <2>1, <2>2
<1>6. Witnessed'
  BY <1>1, <1>5 DEF PackInv, Witnessed, AllValid, OnceValid
<1>7. UnderWay' = UnderWay /\ c \in UnderWay
  BY <1>1, <1>2, <1>3 DEF UnderWay
<1>8. Alone'
  <2> SUFFICES ASSUME ~overlapped, packStops = 0
               PROVE  \A d \in Collectors : SavedSoFar(collecting[d])'
    BY <1>1, <1>7 DEF PackInv, Alone
  <2>1. SavedSoFar(collecting[c])'
    BY <1>2, <1>3 DEF SavedSoFar
  <2>2. ASSUME NEW d \in Collectors \ {c} PROVE SavedSoFar(collecting[d])'
    <3>1. SavedSoFar(collecting[d]) /\ collecting'[d] = collecting[d]
      BY <1>3, <1>7 DEF PackInv, Alone
    <3> QED BY <1>1, <3>1 DEF SavedSoFar, PackStatus
  <2> QED BY <2>1, <2>2
<1>9. Unbuilt' /\ InputsGiven'
  BY <1>1, WayFacts DEF PackInv, Unbuilt, InputsGiven
<1> QED BY <1>4, <1>6, <1>8, <1>9 DEF PackInv

\* The three writes of a lone collection tell of what it looked at.
LEMMA StepSave ==
  ASSUME PackInv, NEW c \in Collectors, SavePack(c)
  PROVE  PackInv'
<1> DEFINE list == collecting[c].statuses
           told == [tasks |-> list, status |-> PackStatus(list)]
<1>1. /\ UNCHANGED <<tasks, outputs, everValid, packStops, overlapped>>
      /\ collecting[c].at \in LateStages /\ list \in Seq(TaskStates) /\ Looked(collecting[c])
  BY MemoryTyped DEF SavePack, LateStages, PackInv, Witnessed
<1>2. PICK m \in [at : Stages, statuses : Seq(TaskStates)] :
        /\ collecting' = [collecting EXCEPT ![c] = m] /\ Looked(m)
        /\ \/ /\ collecting[c].at = "manifest" /\ manifest' = told /\ UNCHANGED <<packTrace, packSummary>>
              /\ m = [at |-> "trace", statuses |-> list]
           \/ /\ collecting[c].at = "trace" /\ packTrace' = list /\ UNCHANGED <<manifest, packSummary>>
              /\ m = [at |-> "summary", statuses |-> list]
           \/ /\ collecting[c].at = "summary" /\ packSummary' = PackStatus(list)
              /\ UNCHANGED <<manifest, packTrace>> /\ m = Over
  <2>1. CASE collecting[c].at = "manifest"
    <3> DEFINE m == [at |-> "trace", statuses |-> list]
    <3>1. /\ collecting' = [collecting EXCEPT ![c] = m] /\ manifest' = told
          /\ UNCHANGED <<packTrace, packSummary>>
      BY <2>1, MemoryTyped DEF SavePack, PackInv, PackTyped
    <3>2. m \in [at : Stages, statuses : Seq(TaskStates)] /\ Looked(m)
      BY <1>1, <2>1 DEF Looked, LateStages, Stages
    <3> QED BY <2>1, <3>1, <3>2
  <2>2. CASE collecting[c].at = "trace"
    <3> DEFINE m == [at |-> "summary", statuses |-> list]
    <3>1. /\ collecting' = [collecting EXCEPT ![c] = m] /\ packTrace' = list
          /\ UNCHANGED <<manifest, packSummary>>
      BY <2>2, MemoryTyped DEF SavePack, PackInv, PackTyped
    <3>2. m \in [at : Stages, statuses : Seq(TaskStates)] /\ Looked(m)
      BY <1>1, <2>2 DEF Looked, LateStages, Stages
    <3> QED BY <2>2, <3>1, <3>2
  <2>3. CASE collecting[c].at = "summary"
    <3>1. /\ collecting' = [collecting EXCEPT ![c] = Over] /\ packSummary' = PackStatus(list)
          /\ UNCHANGED <<manifest, packTrace>>
      BY <2>3 DEF SavePack
    <3>2. Over \in [at : Stages, statuses : Seq(TaskStates)] /\ Looked(Over)
      BY MemoryTyped DEF Over, Looked, LateStages, Stages, PackInv
    <3> QED BY <2>3, <3>1, <3>2
  <2> QED BY <1>1, <2>1, <2>2, <2>3 DEF LateStages
<1>3. /\ collecting' \in [Collectors -> [at : Stages, statuses : Seq(TaskStates)]]
      /\ collecting'[c] = m /\ \A d \in Collectors \ {c} : collecting'[d] = collecting[d]
  BY <1>2, OneMemory DEF PackInv
<1>4. told \in Manifests /\ (PackStatus(list) = "completed" => AllValid)
  <2>1. told \in Manifests
    BY <1>1, PackStatusFacts
  <2>2. ASSUME PackStatus(list) = "completed" PROVE AllValid
    <3>1. \A i \in 1 .. Len(list) : list[i] = "completed"
      BY <1>1, <2>2, PackStatusFacts
    <3> QED BY <1>1, <3>1 DEF Looked, AllValid
  <2> QED BY <2>1, <2>2
<1>5. PackTyped' /\ manifest' # NoPack
  <2>1. manifest' \in Manifests
    BY <1>1, <1>2, <1>4, WayFacts DEF PackInv, PackTyped
  <2> QED BY <1>1, <1>3, <2>1, ManifestIsNone DEF PackInv, PackTyped
<1>6. \A d \in Collectors : Looked(collecting[d])'
  <2>1. Looked(collecting[c])'
    BY <1>1, <1>2, <1>3 DEF Looked, OnceValid
  <2>2. ASSUME NEW d \in Collectors \ {c} PROVE Looked(collecting[d])'
    BY <1>1, <1>3 DEF PackInv, Witnessed, Looked, OnceValid
  <2> QED BY <2>1, <2>2
<1>7. Witnessed'
  <2>1. AllValid => AllValid'
    BY <1>1 DEF AllValid, OnceValid
  <2>2. manifest'.status = "completed" => AllValid
    BY <1>1, <1>2, <1>4, WayFacts DEF PackInv, Witnessed
  <2>3. packSummary' = "completed" => AllValid
    BY <1>2, <1>4 DEF PackInv, Witnessed
  <2> QED BY <1>1, <1>6, <2>1, <2>2, <2>3 DEF PackInv, Witnessed, OnceValid
<1>8. Alone'
  <2> SUFFICES ASSUME ~overlapped, packStops = 0
               PROVE  /\ \A d, e \in UnderWay' : d = e
                      /\ \A d \in Collectors : SavedSoFar(collecting[d])'
                      /\ packSummary' # NoPack /\ UnderWay' = {} =>
                           manifest' = [tasks |-> packTrace', status |-> packSummary']
    BY <1>1 DEF Alone
  <2>1. /\ \A d \in Collectors \ {c} : d \notin UnderWay
        /\ SavedSoFar(collecting[c])
    BY <1>1, WayFacts
  <2>2. UnderWay' \subseteq {c} /\ (m.at \in LateStages => c \in UnderWay')
    BY <1>3, <2>1 DEF UnderWay, LateStages
  <2>3. ASSUME NEW d \in Collectors \ {c} PROVE SavedSoFar(collecting[d])'
    BY <1>3, <2>1 DEF UnderWay, SavedSoFar
  <2>4. SavedSoFar(m)' /\ (m.at \notin LateStages =>
                            manifest' = [tasks |-> packTrace', status |-> packSummary'])
    <3>1. CASE collecting[c].at = "manifest"
      BY <1>2, <3>1 DEF SavedSoFar, LateStages, PackStatus
    <3>2. CASE collecting[c].at = "trace"
      <4>1. manifest = told
        BY <2>1, <3>2 DEF SavedSoFar
      <4> QED BY <1>2, <3>2, <4>1 DEF SavedSoFar, LateStages, PackStatus
    <3>3. CASE collecting[c].at = "summary"
      <4>1. manifest = told /\ packTrace = list
        BY <2>1, <3>3 DEF SavedSoFar
      <4> QED BY <1>2, <3>3, <4>1 DEF SavedSoFar, LateStages, Over
    <3> QED BY <1>1, <3>1, <3>2, <3>3 DEF LateStages
  <2> QED BY <1>3, <2>2, <2>3, <2>4 DEF SavedSoFar
<1>9. Unbuilt' /\ InputsGiven'
  BY <1>1, <1>5 DEF PackInv, Unbuilt, InputsGiven
<1> QED BY <1>5, <1>7, <1>8, <1>9 DEF PackInv

\* What a stopped collection leaves is told by packStops, and a torn manifest is not
\* completed.
LEMMA StepStop ==
  ASSUME PackInv, NEW c \in Collectors, StopCollect(c)
  PROVE  PackInv'
<1>1. /\ UNCHANGED <<tasks, packTrace, packSummary, outputs, everValid, overlapped>>
      /\ packStops' = packStops + 1 /\ collecting' = [collecting EXCEPT ![c] = Over]
      /\ manifest' = manifest \/ manifest' = [tasks |-> << >>, status |-> "torn"]
      /\ manifest # NoPack
  BY WayFacts DEF StopCollect, LateStages
<1>2. /\ collecting' \in [Collectors -> [at : Stages, statuses : Seq(TaskStates)]]
      /\ collecting'[c] = Over /\ \A d \in Collectors \ {c} : collecting'[d] = collecting[d]
  <2>1. Over \in [at : Stages, statuses : Seq(TaskStates)]
    BY DEF Over, Stages
  <2> QED BY <1>1, <2>1, OneMemory DEF PackInv
<1>3. manifest' \in Manifests /\ manifest' # NoPack
  <2>1. manifest' \in Manifests
    <3>1. << >> \in Seq(TaskStates)
      BY EmptySeq
    <3>2. [tasks |-> << >>, status |-> "torn"] \in Manifests
      BY <3>1 DEF Manifests
    <3> QED BY <1>1, <3>2 DEF PackInv, PackTyped
  <2> QED BY <2>1, ManifestIsNone
<1>4. packStops' \in Nat /\ packStops' # 0
  BY <1>1 DEF PackInv, PackTyped
<1>5. PackTyped'
  BY <1>1, <1>2, <1>3, <1>4 DEF PackInv, PackTyped
<1>6. \A d \in Collectors : Looked(collecting[d])'
  <2>1. Looked(collecting[c])'
    BY <1>1, <1>2, MemoryTyped DEF Looked, Over, LateStages, PackInv
  <2>2. ASSUME NEW d \in Collectors \ {c} PROVE Looked(collecting[d])'
    BY <1>1, <1>2 DEF PackInv, Witnessed, Looked, OnceValid
  <2> QED BY <2>1, <2>2
<1>7. Witnessed'
  BY <1>1, <1>6 DEF PackInv, Witnessed, AllValid, OnceValid
<1>8. Unbuilt' /\ InputsGiven' /\ Alone'
  BY <1>1, <1>3, <1>4 DEF PackInv, Unbuilt, InputsGiven, Alone
<1> QED BY <1>5, <1>7, <1>8 DEF PackInv

-----------------------------------------------------------------------------
(* Native packs: the theorem.                                              *)

LEMMA PackStart == PackInit => PackInv
<1> SUFFICES ASSUME PackInit PROVE PackInv
  OBVIOUS
<1>1. PackTyped
  <2>1. << >> \in Seq(TaskStates) /\ << >> \in Seq(PackTasks)
    BY EmptySeq
  <2>2. Idle \in [at : Stages, statuses : Seq(TaskStates)]
    BY <2>1 DEF Idle, Stages
  <2> QED BY <2>1, <2>2 DEF PackInit, PackTyped
<1>2. Unbuilt /\ InputsGiven
  BY DEF PackInit, Unbuilt, InputsGiven, EarlierInputs, Idle
<1>3. Witnessed
  BY PackAssumption DEF PackInit, Witnessed, Looked, Idle, LateStages, TaskStates
<1>4. Alone
  BY DEF PackInit, Alone, UnderWay, SavedSoFar, Idle
<1> QED BY <1>1, <1>2, <1>3, <1>4 DEF PackInv

LEMMA PackStep == PackInv /\ [PackNext]_packVars => PackInv'
<1> SUFFICES ASSUME PackInv, [PackNext]_packVars PROVE PackInv'
  OBVIOUS
<1>1. ASSUME NEW nodes \in PackWorkflows, BuildPack(nodes) PROVE PackInv'
  BY <1>1, StepBuild
<1>2. ASSUME NEW role \in PackRoles, NEW state \in {"invalid", "valid"}, WriteOutput(role, state)
      PROVE  PackInv'
  BY <1>2, StepWrite
<1>3. ASSUME NEW c \in Collectors, StartCollect(c) \/ Look(c) \/ SavePack(c) \/ StopCollect(c)
      PROVE  PackInv'
  BY <1>3, StepStart, StepLook, StepSave, StepStop
<1>4. CASE UNCHANGED packVars
  BY <1>4 DEF packVars, PackInv, PackTyped, Unbuilt, InputsGiven, Witnessed, Looked, AllValid,
              OnceValid, Alone, SavedSoFar, UnderWay, PackStatus
<1> QED BY <1>1, <1>2, <1>3, <1>4 DEF PackNext

\* A pack is told to be completed only when all its agents had once written a valid
\* output, no agent is pointed at an output that no earlier task writes, and a lone
\* collection's artifacts agree, whatever collections crossed or stopped and however
\* outputs were rewritten (NativeSubAgentWorkflowPackBuilder, ...PackCollector.collect).
THEOREM PacksHonest == PackSpec => []PacksAreHonest
<1>1. PackInv => PacksAreHonest
  BY DEF PackInv, InputsGiven, EarlierInputs, Witnessed, AllValid, OnceValid, Alone, PacksAreHonest,
         CompletedWasValid, ArtifactsAgree
<1> QED BY <1>1, PackStart, PackStep, PTL DEF PackSpec

-----------------------------------------------------------------------------
(* Repair: the inductive invariant.                                        *)

\* A plan somebody built, and the plan an approval is of.
Built(plan) == \E e \in Reports : plan = PlanOf(e)
OfBuilt(approval) == Built(approval.plan) /\ approval.planId = approval.plan.planId

\* A change plan has all its fields, so that two of one hash differ in nothing but the
\* approval.
FullPlan(plan) ==
  plan = [planId |-> plan.planId, approvalId |-> plan.approvalId, body |-> plan.body,
          ops |-> plan.ops, targets |-> plan.targets, forbidden |-> plan.forbidden,
          commands |-> plan.commands, risk |-> plan.risk, approved |-> plan.approved]

Modified(plan) == {op.on : op \in {o \in plan.ops : o.type = "modify_file"}}

\* A change plan is the approved one in what it touches, and safe.
Bound(plan) ==
  /\ FullPlan(plan)
  /\ Modified(plan) = plan.approved.targets /\ plan.planId[1] = plan.approved.planId
  /\ PlanAccepted(plan)
  /\ \A op \in plan.ops : op.type = "modify_file" => op.on \notin OutsideFiles

Requested(document) == FullPlan(document.plan) /\ document.hash = Hash(document.plan)

RepairInv ==
  /\ scopedPlan # Nothing => Built(scopedPlan)
  /\ repairApproval # Nothing => OfBuilt(repairApproval)
  /\ changePlan # Nothing => Bound(changePlan)
  /\ execRequest # Nothing => Requested(execRequest)
  /\ execApproval # Nothing => Requested(execApproval)
  /\ dryRun # Nothing =>
       /\ FullPlan(dryRun.plan) /\ Requested(dryRun.approval)
       /\ Hash(dryRun.plan) = dryRun.approval.hash
       /\ dryRun.approval.status = "approved"
       /\ dryRun.approval.expires = Nothing \/ dryRun.at < dryRun.approval.expires

-----------------------------------------------------------------------------
(* Repair: the steps.                                                      *)

\* A built plan modifies its targets and has something to do; its id tells the targets.
LEMMA BuiltFacts ==
  ASSUME NEW e \in Reports
  PROVE  /\ Modified(PlanOf(e)) = PlanOf(e).targets
         /\ PlanOf(e).ops # {}
         /\ PlanOf(e).planId[2] = PlanOf(e).targets
<1> DEFINE inspections == {Op("inspect", Nothing) : c \in e.codes \intersect {"test_failed", "success_criteria_failed"}}
           changes == {Op("modify_file", f) : f \in Targets(e)}
           tests == {Op("run_test", c) : c \in e.commands}
           ops == inspections \union changes \union tests
<1>1. PlanOf(e).ops = (IF ops = {} THEN {Op("manual_review", Nothing)} ELSE ops)
  BY DEF PlanOf, Operations
<1>2. PlanOf(e).ops # {}
  BY <1>1
<1>3. \A o \in PlanOf(e).ops : o.type = "modify_file" => \E f \in Targets(e) : o = Op("modify_file", f)
  BY <1>1 DEF Op
<1>4. \A f \in Targets(e) : Op("modify_file", f) \in PlanOf(e).ops
  BY <1>1
<1>5. Modified(PlanOf(e)) = Targets(e)
  <2>1. ASSUME NEW f \in Modified(PlanOf(e)) PROVE f \in Targets(e)
    <3>1. PICK o \in PlanOf(e).ops : o.type = "modify_file" /\ f = o.on
      BY DEF Modified
    <3> QED BY <1>3, <3>1 DEF Op
  <2>2. ASSUME NEW f \in Targets(e) PROVE f \in Modified(PlanOf(e))
    <3>1. Op("modify_file", f) \in PlanOf(e).ops
      BY <1>4
    <3>2. Op("modify_file", f).type = "modify_file" /\ Op("modify_file", f).on = f
      BY DEF Op
    <3> QED BY <3>1, <3>2 DEF Modified
  <2> QED BY <2>1, <2>2
<1> QED BY <1>2, <1>5 DEF PlanOf

\* Plans of one hash say the same.
LEMMA SameHash ==
  ASSUME NEW p, NEW q, FullPlan(p), FullPlan(q), Hash(p) = Hash(q)
  PROVE  p.ops = q.ops /\ p.body = q.body /\ p.targets = q.targets /\ p.commands = q.commands
<1>1. /\ Hash(p).ops = p.ops /\ Hash(p).body = p.body /\ Hash(p).targets = p.targets
      /\ Hash(p).commands = p.commands
  BY DEF FullPlan, Hash
<1>2. /\ Hash(q).ops = q.ops /\ Hash(q).body = q.body /\ Hash(q).targets = q.targets
      /\ Hash(q).commands = q.commands
  BY DEF FullPlan, Hash
<1> QED BY <1>1, <1>2

\* An approval is of a plan with the same targets as the one that is materialized.
LEMMA StepMaterialize == ASSUME RepairInv, Materialize PROVE RepairInv'
<1>1. /\ scopedPlan # Nothing /\ repairApproval # Nothing /\ Materializes
      /\ UNCHANGED <<scopedPlan, repairApproval, execRequest, execApproval, dryRun>>
  BY DEF Materialize
<1>2. PICK e \in Reports : scopedPlan = PlanOf(e)
  BY <1>1 DEF RepairInv, Built
<1>3. PICK a \in Reports : repairApproval.plan = PlanOf(a)
  BY <1>1 DEF RepairInv, OfBuilt, Built
<1>4. PlanOf(a).planId = PlanOf(e).planId
  BY <1>1, <1>2, <1>3 DEF Materializes, RepairInv, OfBuilt
<1>5. PlanOf(a).targets = PlanOf(e).targets
  BY <1>4, BuiltFacts
<1>6. PICK plan : /\ plan = changePlan' /\ FullPlan(plan)
                  /\ plan.planId[1] = PlanOf(e).planId /\ plan.ops = PlanOf(e).ops
                  /\ plan.targets = PlanOf(e).targets /\ plan.forbidden = PlanOf(e).forbidden
                  /\ plan.commands = PlanOf(e).commands /\ plan.approved = PlanOf(a)
  BY <1>2, <1>3 DEF Materialize, FullPlan
<1>7. Modified(plan) = plan.approved.targets /\ plan.planId[1] = plan.approved.planId
  BY <1>4, <1>5, <1>6, BuiltFacts DEF Modified
<1>8. \A op \in plan.ops : OperationAllowed(op, PlanOf(e)) /\ ~(op.type = "modify_file" /\ op.on \in OutsideFiles)
  BY <1>1, <1>2, <1>6 DEF Materializes
<1>9. PlanAccepted(plan)
  BY <1>6, <1>8, BuiltFacts DEF PlanAccepted, OperationAllowed
<1>10. Bound(plan)
  BY <1>6, <1>7, <1>8, <1>9 DEF Bound
<1> QED BY <1>1, <1>6, <1>10 DEF RepairInv

\* What a person writes into a plan changes neither what it touches nor its shape.
LEMMA StepFillIn == ASSUME RepairInv, NEW body \in Bodies, FillIn(body) PROVE RepairInv'
<1>1. /\ Bound(changePlan) /\ changePlan' = [changePlan EXCEPT !.body = body]
      /\ UNCHANGED <<scopedPlan, repairApproval, execRequest, execApproval, dryRun>>
  BY DEF FillIn, RepairInv
<1>2. PICK plan : plan = changePlan'
  OBVIOUS
<1>3. plan = [planId |-> changePlan.planId, approvalId |-> changePlan.approvalId, body |-> body,
              ops |-> changePlan.ops, targets |-> changePlan.targets,
              forbidden |-> changePlan.forbidden, commands |-> changePlan.commands,
              risk |-> changePlan.risk, approved |-> changePlan.approved]
  BY <1>1, <1>2 DEF Bound, FullPlan
<1>4. Bound(plan)
  BY <1>1, <1>3 DEF Bound, FullPlan, Modified, PlanAccepted, OperationAllowed
<1> QED BY <1>1, <1>2, <1>4 DEF RepairInv

LEMMA StepRequest == ASSUME RepairInv, RequestExecution PROVE RepairInv'
<1>1. /\ FullPlan(changePlan)
      /\ execRequest' = [planId |-> changePlan.planId, hash |-> Hash(changePlan), plan |-> changePlan]
      /\ UNCHANGED <<scopedPlan, repairApproval, changePlan, execApproval, dryRun>>
  BY DEF RequestExecution, RepairInv, Bound
<1>2. PICK request : request = execRequest' /\ Requested(request)
  BY <1>1 DEF Requested
<1> QED BY <1>1, <1>2 DEF RepairInv

LEMMA StepDecide ==
  ASSUME RepairInv, NEW status \in Decisions, NEW expires \in Expiries,
         DecideRepair(status, expires) \/ DecideExecution(status, expires)
  PROVE  RepairInv'
<1>1. CASE DecideRepair(status, expires)
  <2>1. Built(scopedPlan) /\ UNCHANGED <<scopedPlan, changePlan, execRequest, execApproval, dryRun>>
    BY <1>1 DEF DecideRepair, RepairInv
  <2>2. PICK approval : approval = repairApproval' /\ OfBuilt(approval)
    BY <1>1, <2>1 DEF DecideRepair, OfBuilt
  <2> QED BY <2>1, <2>2 DEF RepairInv
<1>2. CASE DecideExecution(status, expires)
  <2>1. Requested(execRequest) /\ UNCHANGED <<scopedPlan, repairApproval, changePlan, execRequest, dryRun>>
    BY <1>2 DEF DecideExecution, RepairInv
  <2>2. PICK approval : approval = execApproval' /\ Requested(approval)
    BY <1>2, <2>1 DEF DecideExecution, Requested
  <2> QED BY <2>1, <2>2 DEF RepairInv
<1> QED BY <1>1, <1>2

LEMMA StepDryRun == ASSUME RepairInv, DryRun PROVE RepairInv'
<1>1. /\ FullPlan(changePlan) /\ Requested(execApproval) /\ Live(execApproval)
      /\ Hash(changePlan) = execApproval.hash
      /\ dryRun' = [plan |-> changePlan, approval |-> execApproval, at |-> clock]
      /\ UNCHANGED <<scopedPlan, repairApproval, changePlan, execRequest, execApproval>>
  BY DEF DryRun, RepairInv, Bound
<1>2. PICK run : run = dryRun' /\ run = [plan |-> changePlan, approval |-> execApproval, at |-> clock]
  BY <1>1
<1>3. /\ FullPlan(run.plan) /\ Requested(run.approval) /\ Hash(run.plan) = run.approval.hash
      /\ run.approval.status = "approved"
      /\ run.approval.expires = Nothing \/ run.at < run.approval.expires
  BY <1>1, <1>2 DEF Live
<1> QED BY <1>1, <1>2, <1>3 DEF RepairInv

LEMMA RepairStep == RepairInv /\ [RepairNext]_repairVars => RepairInv'
<1> SUFFICES ASSUME RepairInv, [RepairNext]_repairVars PROVE RepairInv'
  OBVIOUS
<1>1. ASSUME NEW e \in Reports, BuildPlan(e) PROVE RepairInv'
  <2>1. PICK plan : plan = scopedPlan' /\ Built(plan)
    BY <1>1 DEF BuildPlan, Built
  <2> QED BY <1>1, <2>1 DEF BuildPlan, RepairInv
<1>2. ASSUME NEW status \in Decisions, NEW expires \in Expiries,
             DecideRepair(status, expires) \/ DecideExecution(status, expires)
      PROVE  RepairInv'
  BY <1>2, StepDecide
<1>3. CASE Materialize
  BY <1>3, StepMaterialize
<1>4. ASSUME NEW body \in Bodies, FillIn(body) PROVE RepairInv'
  BY <1>4, StepFillIn
<1>5. CASE RequestExecution
  BY <1>5, StepRequest
<1>6. CASE DryRun
  BY <1>6, StepDryRun
<1>7. CASE Tick \/ UNCHANGED repairVars
  BY <1>7 DEF Tick, repairVars, RepairInv
<1> QED BY <1>1, <1>2, <1>3, <1>4, <1>5, <1>6, <1>7 DEF RepairNext

LEMMA RepairSafe == RepairInv => ApprovalsBoundPlans /\ StagesAgree
<1> SUFFICES ASSUME RepairInv PROVE ApprovalsBoundPlans /\ StagesAgree
  OBVIOUS
<1>1. ASSUME changePlan # Nothing
      PROVE  /\ Modified(changePlan) = changePlan.approved.targets
             /\ changePlan.planId[1] = changePlan.approved.planId
             /\ PlanAccepted(changePlan)
             /\ \A op \in changePlan.ops : op.type = "modify_file" =>
                  op.on \notin SensitivePaths \union changePlan.forbidden \union OutsideFiles
  BY <1>1 DEF RepairInv, Bound, PlanAccepted, OperationAllowed
<1>2. ASSUME dryRun # Nothing
      PROVE  /\ dryRun.plan.ops = dryRun.approval.plan.ops
             /\ dryRun.plan.body = dryRun.approval.plan.body
             /\ dryRun.plan.targets = dryRun.approval.plan.targets
             /\ dryRun.plan.commands = dryRun.approval.plan.commands
             /\ dryRun.approval.status = "approved"
             /\ dryRun.approval.expires = Nothing \/ dryRun.at < dryRun.approval.expires
  BY <1>2, SameHash DEF RepairInv, Requested
<1> QED BY <1>1, <1>2 DEF ApprovalsBoundPlans, StagesAgree, Modified

-----------------------------------------------------------------------------
(* Scopes: the inductive invariant.                                        *)

IsBrief(b) == "constraints" \in DOMAIN b /\ b.constraints \in Seq(Constraints)

ModulesOfType(type) == IF type = "rag" THEN {"rag"} ELSE IF type = "doc" THEN {"docs"} ELSE {}

\* What a negotiation's parts have to do with one another: only the words that its id
\* holds, or a constraint, name a module, and readiness shows in the allowed actions.
Negotiated(n) ==
  /\ n.ready <=> "evaluate_feasibility" \in n.actions
  /\ n.ready => n.modules # {}
  /\ \/ n.modules \ {"rag", "docs"} # {}
     \/ n.modules = ModulesOfType(DetectedType(n.id[1]))

\* A confirmation is of its basis.
Confirmed ==
  /\ Negotiated(basis)
  /\ confirmation = [id |-> confirmation.id, how |-> confirmation.how,
                     status |-> confirmation.status, scope |-> confirmation.scope,
                     override |-> confirmation.override, expires |-> confirmation.expires,
                     lapsed |-> confirmation.lapsed]
  /\ confirmation.id = basis.id /\ confirmation.scope = ConfirmedScope(confirmation.how, basis)
  /\ KeepsNegotiated(confirmation.scope, basis, confirmation.override)

\* An answer of the gate is still what it would say.
Answered(answer) ==
  /\ answer.allowed <=> GateAllows(answer.against)
  /\ answer.against # NoScope => Negotiated(answer.against)

ScopeInv ==
  /\ IsBrief(brief)
  /\ negotiation # NoScope => Negotiated(negotiation)
  /\ confirmation # NoScope => Confirmed
  /\ gateResult # NoScope => Answered(gateResult)

-----------------------------------------------------------------------------
(* Scopes: the operators.                                                  *)

\* A module that no constraint names is the one the detected type has.
LEMMA TargetFacts ==
  ASSUME NEW b, IsBrief(b)
  PROVE  \/ TargetModule(b) \in {"named", "kept", "kept_out"}
         \/ {TargetModule(b)} \ {NoScope} = ModulesOfType(DetectedType(b.words))
<1> DEFINE found == {i \in 1 .. Len(b.constraints) : b.constraints[i] \in DOMAIN ModuleNamedBy}
           naming == SelectInSeq(b.constraints, LAMBDA c : c \in DOMAIN ModuleNamedBy)
<1>1. CASE "label" \in ToSet(b.constraints)
  BY <1>1 DEF TargetModule
<1>2. CASE "label" \notin ToSet(b.constraints) /\ naming # 0
  <2>1. found # {} /\ naming = Min(found)
    BY <1>2 DEF SelectInSeq
  <2>2. \E x \in found : \A y \in found : x <= y
    <3>1. found \in SUBSET Nat
      OBVIOUS
    <3> HIDE DEF found
    <3> QED BY <2>1, <3>1, LeastNatural
  <2>3. naming \in found
    BY <2>1, <2>2 DEF Min
  <2>4. ModuleNamedBy[b.constraints[naming]] \in {"kept", "kept_out"}
    BY <2>3 DEF ModuleNamedBy
  <2>5. TargetModule(b) = ModuleNamedBy[b.constraints[naming]]
    BY <1>2 DEF TargetModule
  <2> QED BY <2>4, <2>5
<1>3. CASE "label" \notin ToSet(b.constraints) /\ naming = 0
  <2>1. TargetModule(b) = IF DetectedType(b.words) = "rag" THEN "rag"
                          ELSE IF DetectedType(b.words) = "doc" THEN "docs" ELSE NoScope
    BY <1>3 DEF TargetModule
  <2> QED BY <2>1, ScopeAssumption DEF ModulesOfType
<1> QED BY <1>1, <1>2, <1>3

LEMMA NegotiationFacts ==
  ASSUME NEW b, IsBrief(b)
  PROVE  Negotiated(NegotiationOf(b))
<1> DEFINE ready == NextStep(b) = "proceed_to_feasibility"
           n == NegotiationOf(b)
<1>1. /\ n.id[1] = b.words /\ n.ready = ready /\ n.modules = {TargetModule(b)} \ {NoScope}
      /\ n.actions = {"inspect_project"} \union
                       IF ready THEN {"evaluate_feasibility", "draft_plan"}
                                ELSE {"ask_clarifying_questions", "draft_scope_proposal"}
  BY DEF NegotiationOf
<1>2. "evaluate_feasibility" \in n.actions <=> ready
  BY <1>1
<1>3. ready => TargetModule(b) # NoScope
  <2>1. ready => Ambiguities(b) = {}
    BY DEF NextStep
  <2>2. TargetModule(b) = NoScope => "module" \in Ambiguities(b)
    BY DEF Ambiguities
  <2> QED BY <2>1, <2>2
<1>4. n.modules \ {"rag", "docs"} # {} \/ n.modules = ModulesOfType(DetectedType(n.id[1]))
  BY <1>1, TargetFacts, ScopeAssumption
<1> QED BY <1>1, <1>2, <1>3, <1>4 DEF Negotiated

-----------------------------------------------------------------------------
(* Scopes: the steps.                                                      *)

LEMMA StepNegotiate == ASSUME ScopeInv, Negotiate PROVE ScopeInv'
<1>1. PICK n : n = negotiation' /\ Negotiated(n)
  BY NegotiationFacts DEF Negotiate, ScopeInv
<1> QED BY <1>1 DEF Negotiate, ScopeInv, IsBrief, Confirmed, Answered, GateAllows

\* A confirmation is not changed but by its expiry, and what the gate said of it before
\* is forgotten.
LEMMA StepConfirm == ASSUME ScopeInv, Confirm PROVE ScopeInv'
<1>1. /\ Negotiated(negotiation) /\ basis' = negotiation /\ gateResult' = NoScope
      /\ UNCHANGED <<brief, negotiation>>
  BY DEF Confirm, ScopeInv
<1>2. PICK how, override, expires, status :
        /\ KeepsNegotiated(ConfirmedScope(how, negotiation), negotiation, override)
        /\ confirmation' = [id |-> negotiation.id, how |-> how, status |-> status,
                            scope |-> ConfirmedScope(how, negotiation),
                            override |-> override, expires |-> expires, lapsed |-> FALSE]
  BY DEF Confirm
<1>3. Confirmed'
  BY <1>1, <1>2 DEF Confirmed
<1> QED BY <1>1, <1>3 DEF ScopeInv

LEMMA StepExpire == ASSUME ScopeInv, Expire PROVE ScopeInv'
<1>1. /\ Confirmed /\ confirmation' = [confirmation EXCEPT !.lapsed = TRUE] /\ gateResult' = NoScope
      /\ UNCHANGED <<brief, negotiation, basis>>
  BY DEF Expire, ScopeInv
<1>2. confirmation' = [id |-> confirmation.id, how |-> confirmation.how,
                       status |-> confirmation.status, scope |-> confirmation.scope,
                       override |-> confirmation.override, expires |-> confirmation.expires,
                       lapsed |-> TRUE]
  BY <1>1 DEF Confirmed
<1>3. Confirmed'
  BY <1>1, <1>2 DEF Confirmed
<1> QED BY <1>1, <1>3 DEF ScopeInv

LEMMA StepRewrite == ASSUME ScopeInv, Rewrite PROVE ScopeInv'
<1>1. PICK r \in Rewrites : brief' = [f \in DOMAIN brief |-> IF f \in DOMAIN r THEN r[f] ELSE brief[f]]
  BY DEF Rewrite
<1>2. PICK b : b = brief' /\ IsBrief(b)
  BY <1>1, ScopeAssumption DEF ScopeInv, IsBrief
<1>3. PICK n : n = negotiation' /\ Negotiated(n)
  BY <1>2, NegotiationFacts DEF Rewrite
<1> QED BY <1>2, <1>3 DEF Rewrite, ScopeInv, Confirmed

LEMMA StepGate == ASSUME ScopeInv, EvaluateGate PROVE ScopeInv'
<1>1. PICK against \in {NoScope, negotiation} :
        gateResult' = [allowed |-> GateAllows(against), against |-> against]
  BY DEF EvaluateGate
<1>2. against # NoScope => Negotiated(against)
  BY DEF EvaluateGate, ScopeInv
<1>3. UNCHANGED <<brief, negotiation, confirmation, basis>>
  BY DEF EvaluateGate
<1>4. PICK answer : /\ answer = gateResult' /\ answer.against = against
                    /\ answer.allowed = GateAllows(against)
  BY <1>1
<1>5. Answered(answer)
  BY <1>2, <1>4 DEF Answered
<1>6. Answered(answer)'
  BY <1>3, <1>5 DEF Answered, GateAllows
<1> QED BY <1>3, <1>4, <1>6 DEF ScopeInv, Confirmed

LEMMA ScopeStep == ScopeInv /\ [ScopeNext]_scopeVars => ScopeInv'
<1> SUFFICES ASSUME ScopeInv, [ScopeNext]_scopeVars PROVE ScopeInv'
  OBVIOUS
<1>1. CASE UNCHANGED scopeVars
  BY <1>1 DEF scopeVars, ScopeInv, Confirmed, Answered, GateAllows
<1> QED BY <1>1, StepNegotiate, StepConfirm, StepExpire, StepRewrite, StepGate DEF ScopeNext

LEMMA ScopeStart == ScopeInit => ScopeInv
  BY ScopeAssumption DEF ScopeInit, ScopeInv, IsBrief

\* What the gate says of a confirmation, field by field.
LEMMA GateFacts ==
  ASSUME ScopeInv, gateResult # NoScope, confirmation # NoScope
  PROVE  /\ confirmation.scope = ConfirmedScope(confirmation.how, basis)
         /\ confirmation.id = basis.id /\ Negotiated(basis)
         /\ KeepsNegotiated(confirmation.scope, basis, confirmation.override)
         /\ Answered(gateResult)
<1>1. Confirmed /\ Answered(gateResult)
  BY DEF ScopeInv
<1> QED BY <1>1 DEF Confirmed

LEMMA GatePasses == ScopeInv => GatePassesTheReady
<1> SUFFICES ASSUME ScopeInv, gateResult # NoScope, confirmation # NoScope, Unspoilt,
                    gateResult.against = NoScope
             PROVE  /\ confirmation.how = "proposed" => (gateResult.allowed <=> basis.ready)
                    /\ confirmation.how = "inferred" => (gateResult.allowed <=> basis.modules # {})
  BY DEF GatePassesTheReady
<1>1. gateResult.allowed <=> /\ confirmation.scope.modules # {}
                             /\ "evaluate_feasibility" \in confirmation.scope.actions
  <2>1. gateResult.allowed <=> GateAllows(NoScope)
    BY GateFacts DEF Answered
  <2>2. GateAllows(NoScope) <=> /\ confirmation.scope.modules # {}
                                /\ "evaluate_feasibility" \in confirmation.scope.actions
    BY DEF GateAllows, Unspoilt
  <2> QED BY <2>1, <2>2
<1>2. confirmation.how = "proposed" => confirmation.scope.modules = basis.modules
                                       /\ confirmation.scope.actions = basis.actions
  BY GateFacts DEF ConfirmedScope
<1>3. confirmation.how = "inferred" => confirmation.scope.modules = basis.modules
                                       /\ "evaluate_feasibility" \in confirmation.scope.actions
  BY GateFacts DEF ConfirmedScope, Inferred
<1>4. (basis.ready <=> "evaluate_feasibility" \in basis.actions) /\ (basis.ready => basis.modules # {})
  BY GateFacts DEF Negotiated
<1> QED BY <1>1, <1>2, <1>3, <1>4

LEMMA ScopeStays == ScopeInv => ScopeStaysNegotiated
<1> SUFFICES ASSUME ScopeInv, Passed, ~confirmation.override
             PROVE  /\ confirmation.scope.actions \subseteq basis.actions \union {"evaluate_feasibility"}
                    /\ confirmation.scope.modules \subseteq basis.modules
                    /\ gateResult.against # NoScope =>
                         \/ basis.modules = gateResult.against.modules
                         \/ (basis.modules \union gateResult.against.modules) \ {"rag", "docs"} # {}
  BY DEF ScopeStaysNegotiated
<1>1. gateResult # NoScope /\ confirmation # NoScope /\ GateAllows(gateResult.against)
  BY DEF Passed, ScopeInv, Answered, GateAllows
<1>2. KeepsNegotiated(confirmation.scope, basis, FALSE)
  BY <1>1, GateFacts DEF KeepsNegotiated
<1>3. ASSUME gateResult.against # NoScope
      PROVE  \/ basis.modules = gateResult.against.modules
             \/ (basis.modules \union gateResult.against.modules) \ {"rag", "docs"} # {}
  <2>1. Negotiated(gateResult.against) /\ Negotiated(basis)
    BY <1>1, <1>3, GateFacts DEF Answered
  <2>2. gateResult.against.id = basis.id
    BY <1>1, <1>3, GateFacts DEF GateAllows
  <2> QED BY <2>1, <2>2 DEF Negotiated
<1> QED BY <1>2, <1>3 DEF KeepsNegotiated

-----------------------------------------------------------------------------
(* Approvals: the theorem.                                                 *)

\* A materialized repair plan modifies the files of an approved plan and no other, and a
\* dry run is of the very plan whose execution was approved (RepairPlanMaterializer,
\* ExecutionApprovalGate, ControlledExecutionDryRunner); what passes the scope gate was
\* negotiated, and the gate passes what the negotiation was ready for
\* (ScopeConfirmationService.evaluateGate).
THEOREM ApprovalsAreBinding == RepairSpec /\ ScopeSpec => []ApprovalsBind
<1>1. RepairInit => RepairInv
  BY DEF RepairInit, RepairInv
<1>2. RepairInv /\ ScopeInv => ApprovalsBind
  BY RepairSafe, GatePasses, ScopeStays DEF ApprovalsBind
<1> QED BY <1>1, <1>2, RepairStep, ScopeStart, ScopeStep, PTL DEF RepairSpec, ScopeSpec

-----------------------------------------------------------------------------
(* Llm calls: the inductive invariant.                                     *)

Prompts == {Task} \union {RepairPrompt(e, t) : e \in Replies, t \in Nat}
LlmKeys == {"AGENTFLOW_LLM_API_KEY", "OPENAI_API_KEY", "DEEPSEEK_API_KEY"}
LlmHosts == {"own", "openai", "deepseek"}
LlmCallRecords ==
  [to : LlmHosts, key : LlmKeys, prompt : Prompts, reply : Replies \union {Unset}]

\* The attempts before the i-th that got a text, and the last of them.
Texts(list, i) == {j \in 1 .. i - 1 : list[j].reply \notin Textless}
TextOf(texts) == IF texts = {} THEN 0 ELSE CHOOSE j \in texts : \A k \in texts : k <= j
LatestText(list, i) == TextOf(Texts(list, i))

PromptDue(list, i) == IF i = 1 THEN Task ELSE RepairPrompt(list[i - 1].reply, LatestText(list, i))

LlmTyped ==
  /\ calls \in Seq(LlmCallRecords) /\ llmPolicy \in Int \union {Unset}
  /\ llmPhase \in {"idle", "attempt", "sent", "completed", "failed"}
  /\ llmPhase = "idle" => calls = << >>
  /\ llmPhase \in {"idle", "attempt", "sent"} => llmCalls = << >>
  /\ llmPhase # "idle" => Loads(llmEnv) /\ llmEnv.provider # "mock"

\* A request is pending while it is sent; all others are answered, and only the last
\* one may have brought the output.
Answers ==
  /\ \A i \in 1 .. Len(calls) - 1 : calls[i].reply \in Replies \ {"output"}
  /\ llmPhase \in {"attempt", "failed"} /\ Len(calls) > 0 => calls[Len(calls)].reply \in Replies \ {"output"}
  /\ llmPhase = "completed" => Len(calls) > 0 /\ calls[Len(calls)].reply = "output"

Prompted == \A i \in 1 .. Len(calls) : calls[i].prompt = PromptDue(calls, i)

Addressed == \A i \in 1 .. Len(calls) : calls[i].to = HostOf(llmEnv) /\ calls[i].key = KeyOf(llmEnv)

\* What the client has in memory before the first attempt and between two.
InMemory ==
  /\ llmPhase = "idle" => lastError = Unset /\ rawText = 0
  /\ llmPhase = "attempt" => lastError = IF Len(calls) = 0 THEN Unset ELSE calls[Len(calls)].reply
  /\ llmPhase = "attempt" => rawText = LatestText(calls, Len(calls) + 1)
  /\ llmPhase = "sent" => rawText = LatestText(calls, Len(calls))

Attempts ==
  /\ llmPhase = "attempt" => Len(calls) < MaxAttempts
  /\ llmPhase = "sent" => Len(calls) \in 1 .. MaxAttempts
  /\ llmPhase \in {"completed", "failed"} =>
       /\ Len(calls) \in 1 .. MaxAttempts /\ Len(llmCalls) = 1
       /\ llmCalls[1] = [status |-> llmPhase, attempts |-> Len(calls),
                         error |-> IF llmPhase = "failed" THEN calls[Len(calls)].reply ELSE Unset]
       /\ llmPhase = "failed" => Len(calls) = MaxAttempts

LlmInv == LlmTyped /\ Answers /\ Prompted /\ Addressed /\ InMemory /\ Attempts

-----------------------------------------------------------------------------
(* Llm calls: the operators.                                               *)

LEMMA AttemptsAreMany == ASSUME LlmTyped PROVE MaxAttempts \in Nat \ {0}
  BY DEF LlmTyped, MaxAttempts

\* A client that loads has a key and a host, and a provider's own key goes not to another.
LEMMA KeysFacts ==
  ASSUME NEW env, Loads(env), env.provider # "mock"
  PROVE  /\ KeyOf(env) \in LlmKeys /\ HostOf(env) \in LlmHosts
         /\ KeyOf(env) = "OPENAI_API_KEY" => HostOf(env) # "deepseek"
         /\ KeyOf(env) = "DEEPSEEK_API_KEY" => HostOf(env) # "openai"
<1>1. CASE env.provider = "deepseek"
  BY <1>1, LlmAssumption DEF Loads, KeyOf, HostOf, LlmKeys, LlmHosts
<1>2. CASE env.provider = "openai-compatible"
  BY <1>2, LlmAssumption DEF Loads, KeyOf, HostOf, LlmKeys, LlmHosts
<1> QED BY <1>1, <1>2 DEF Loads

LEMMA TextIsNatural ==
  ASSUME NEW list, NEW i \in Nat
  PROVE  LatestText(list, i) \in Nat
<1>1. CASE Texts(list, i) = {}
  BY <1>1 DEF LatestText, TextOf
<1>2. CASE Texts(list, i) # {}
  <2>1. i - 1 \in Nat /\ Texts(list, i) \in SUBSET (1 .. i - 1)
    BY <1>2 DEF Texts
  <2>2. \E j \in Texts(list, i) : \A k \in Texts(list, i) : k <= j
    BY <1>2, <2>1, GreatestIndex
  <2>3. LatestText(list, i) \in Texts(list, i)
    BY <1>2, <2>2 DEF LatestText, TextOf
  <2> QED BY <2>3 DEF Texts
<1> QED BY <1>1, <1>2

\* The latest text before an attempt depends on the replies before it.
LEMMA TextStays ==
  ASSUME NEW list, NEW longer, NEW i \in Nat,
         \A j \in 1 .. i - 1 : longer[j].reply = list[j].reply
  PROVE  LatestText(longer, i) = LatestText(list, i)
<1>1. Texts(longer, i) = Texts(list, i)
  BY DEF Texts
<1> QED BY <1>1 DEF LatestText

\* One answer more: its text if it has one, or the text there was.
LEMMA NextText ==
  ASSUME NEW list, NEW n \in Nat \ {0}
  PROVE  LatestText(list, n + 1) = IF list[n].reply \in Textless THEN LatestText(list, n) ELSE n
<1>1. CASE list[n].reply \in Textless
  <2>1. Texts(list, n + 1) = Texts(list, n)
    BY <1>1 DEF Texts
  <2> QED BY <1>1, <2>1 DEF LatestText
<1>2. CASE list[n].reply \notin Textless
  <2> DEFINE T == Texts(list, n + 1)
  <2>1. n \in T /\ \A k \in T : k \in 1 .. n
    BY <1>2 DEF Texts
  <2>2. \A k \in T : k <= n
    BY <2>1
  <2>3. \A j \in T : (\A k \in T : k <= j) => j = n
    BY <2>1, <2>2
  <2> HIDE DEF T
  <2>4. TextOf(T) = n
    BY <2>1, <2>2, <2>3 DEF TextOf
  <2> QED BY <1>2, <2>4 DEF LatestText, T
<1> QED BY <1>1, <1>2

-----------------------------------------------------------------------------
(* Llm calls: the steps.                                                   *)

LEMMA PromptsStay ==
  ASSUME NEW list \in Seq(LlmCallRecords), NEW longer \in Seq(LlmCallRecords), NEW n \in Nat,
         \A i \in 1 .. n - 1 : longer[i].reply = list[i].reply
  PROVE  \A i \in 1 .. n : PromptDue(longer, i) = PromptDue(list, i)
<1> SUFFICES ASSUME NEW i \in 1 .. n PROVE PromptDue(longer, i) = PromptDue(list, i)
  OBVIOUS
<1>1. LatestText(longer, i) = LatestText(list, i)
  BY TextStays
<1>2. i # 1 => longer[i - 1].reply = list[i - 1].reply
  OBVIOUS
<1> QED BY <1>1, <1>2 DEF PromptDue

LEMMA StepExecute ==
  ASSUME LlmInv, NEW env \in Envs, NEW policy \in Policies, Execute(env, policy)
  PROVE  LlmInv'
<1>1. /\ calls = << >> /\ calls' = << >> /\ llmCalls = << >> /\ UNCHANGED <<lastError, rawText, llmCalls>>
      /\ lastError = Unset /\ rawText = 0 /\ llmPhase' = "attempt"
      /\ llmPolicy' \in Int \union {Unset} /\ llmEnv' = env /\ Loads(env) /\ env.provider # "mock"
  BY LlmAssumption DEF Execute, LlmInv, LlmTyped, InMemory
<1>2. LlmTyped'
  BY <1>1 DEF LlmInv, LlmTyped
<1>3. LatestText(calls', Len(calls') + 1) = 0
  BY <1>1 DEF LatestText, TextOf, Texts
<1>4. InMemory'
  BY <1>1, <1>3 DEF InMemory
<1>5. MaxAttempts' \in Nat \ {0}
  BY <1>1 DEF MaxAttempts
<1> QED BY <1>1, <1>2, <1>4, <1>5 DEF LlmInv, Answers, Prompted, Addressed, Attempts

LEMMA StepSend == ASSUME LlmInv, Send PROVE LlmInv'
<1> DEFINE n == Len(calls)
           sent == [to |-> HostOf(llmEnv), key |-> KeyOf(llmEnv), prompt |-> Prompt, reply |-> Unset]
<1>1. /\ calls \in Seq(LlmCallRecords) /\ calls' = Append(calls, sent) /\ n \in Nat /\ llmCalls = << >>
      /\ llmPhase = "attempt" /\ llmPhase' = "sent" /\ Loads(llmEnv) /\ llmEnv.provider # "mock"
      /\ UNCHANGED <<llmEnv, llmPolicy, lastError, rawText, llmCalls, MaxAttempts>>
  BY DEF Send, LlmInv, LlmTyped, MaxAttempts
<1>2. /\ rawText = LatestText(calls, n + 1)
      /\ n = 0 => lastError = Unset
      /\ n # 0 => lastError = calls[n].reply /\ lastError \in Replies /\ lastError # Unset
  BY <1>1, LlmAssumption DEF LlmInv, InMemory, Answers
<1>3. Prompt = PromptDue(calls, n + 1)
  BY <1>1, <1>2 DEF Prompt, PromptDue
<1>4. Prompt \in Prompts
  <2>1. rawText \in Nat
    BY <1>1, <1>2, TextIsNatural
  <2> QED BY <1>1, <1>2, <2>1 DEF Prompt, Prompts
<1>5. sent \in LlmCallRecords
  BY <1>1, <1>4, KeysFacts DEF LlmCallRecords
<1> HIDE DEF sent
<1>6. /\ calls' \in Seq(LlmCallRecords) /\ Len(calls') = n + 1 /\ calls'[n + 1] = sent
      /\ \A i \in 1 .. n : calls'[i] = calls[i]
  BY <1>1, <1>5
<1> DEFINE m == n + 1
<1>6a. m \in Nat /\ \A i \in 1 .. m - 1 : calls'[i].reply = calls[i].reply
  BY <1>1, <1>6
<1>7. \A i \in 1 .. n + 1 : PromptDue(calls', i) = PromptDue(calls, i)
  <2> HIDE DEF m
  <2>1. \A i \in 1 .. m : PromptDue(calls', i) = PromptDue(calls, i)
    BY <1>1, <1>6, <1>6a, PromptsStay
  <2> QED BY <2>1 DEF m
<1>8. LatestText(calls', n + 1) = LatestText(calls, n + 1)
  <2> HIDE DEF m
  <2>1. LatestText(calls', m) = LatestText(calls, m)
    BY <1>6a, TextStays
  <2> QED BY <2>1 DEF m
<1>9. LlmTyped'
  BY <1>1, <1>6 DEF LlmInv, LlmTyped
<1>10. Answers'
  <2>1. \A i \in 1 .. n : calls[i].reply \in Replies \ {"output"}
    BY <1>1 DEF LlmInv, Answers
  <2> QED BY <1>1, <1>6, <2>1 DEF Answers
<1>11. Prompted'
  <2>1. calls'[n + 1].prompt = PromptDue(calls, n + 1)
    BY <1>3, <1>6 DEF sent
  <2>2. \A i \in 1 .. n : calls'[i].prompt = PromptDue(calls, i)
    BY <1>6 DEF LlmInv, Prompted
  <2> QED BY <1>1, <1>6, <1>7, <2>1, <2>2 DEF Prompted
<1>12. Addressed'
  <2>1. sent.to = HostOf(llmEnv) /\ sent.key = KeyOf(llmEnv)
    BY DEF sent
  <2> QED BY <1>1, <1>6, <2>1 DEF LlmInv, Addressed
<1>13. InMemory'
  BY <1>1, <1>2, <1>6, <1>8 DEF InMemory
<1>14. n < MaxAttempts /\ MaxAttempts \in Nat
  BY <1>1, AttemptsAreMany DEF LlmInv, Attempts
<1>15. Attempts'
  BY <1>1, <1>6, <1>14 DEF Attempts
<1> QED BY <1>9, <1>10, <1>11, <1>12, <1>13, <1>15 DEF LlmInv

LEMMA StepReceive == ASSUME LlmInv, NEW reply \in Replies, Receive(reply) PROVE LlmInv'
<1> DEFINE n == Len(calls)
           last == [to |-> calls[n].to, key |-> calls[n].key, prompt |-> calls[n].prompt, reply |-> reply]
<1>1. /\ calls \in Seq(LlmCallRecords) /\ n \in 1 .. MaxAttempts /\ MaxAttempts \in Nat /\ llmCalls = << >>
      /\ llmPhase = "sent" /\ Loads(llmEnv) /\ llmEnv.provider # "mock"
      /\ calls' = [calls EXCEPT ![n].reply = reply]
      /\ UNCHANGED <<llmEnv, llmPolicy, MaxAttempts>>
  BY AttemptsAreMany DEF Receive, LlmInv, LlmTyped, Attempts, MaxAttempts
<1>2. /\ calls' \in Seq(LlmCallRecords) /\ Len(calls') = n
      /\ \A i \in 1 .. n - 1 : calls'[i] = calls[i]
      /\ calls'[n] = last
  <2>1. n \in 1 .. Len(calls) /\ calls[n] \in LlmCallRecords
    BY <1>1
  <2>2. last \in LlmCallRecords /\ [calls[n] EXCEPT !.reply = reply] = last
    BY <2>1 DEF LlmCallRecords
  <2>3. calls' = [calls EXCEPT ![n] = last]
    BY <1>1, <2>1, <2>2
  <2> HIDE DEF last
  <2> QED BY <1>1, <2>1, <2>2, <2>3
<1>3. calls'[n].reply = reply /\ calls'[n].prompt = calls[n].prompt
      /\ calls'[n].to = calls[n].to /\ calls'[n].key = calls[n].key
  BY <1>2
<1> HIDE DEF last
<1>3a. n \in Nat \ {0} /\ n \in Nat /\ \A i \in 1 .. n - 1 : calls'[i].reply = calls[i].reply
  BY <1>1, <1>2
<1>4. \A i \in 1 .. n : PromptDue(calls', i) = PromptDue(calls, i)
  <2> HIDE DEF n
  <2> QED BY <1>1, <1>2, <1>3a, PromptsStay
<1>5. rawText' = LatestText(calls', n + 1)
  <2>1. LatestText(calls', n) = LatestText(calls, n)
    <3> HIDE DEF n
    <3> QED BY <1>3a, TextStays
  <2>2. rawText = LatestText(calls, n)
    BY <1>1 DEF LlmInv, InMemory
  <2>3. LatestText(calls', n + 1) = IF reply \in Textless THEN LatestText(calls', n) ELSE n
    <3> HIDE DEF n
    <3> QED BY <1>3, <1>3a, NextText
  <2>4. rawText' = IF reply \in Textless THEN rawText ELSE n
    BY DEF Receive
  <2> QED BY <2>1, <2>2, <2>3, <2>4
<1>6. \/ reply = "output" /\ llmPhase' = "completed" /\ UNCHANGED lastError
         /\ llmCalls' = <<[status |-> "completed", attempts |-> n, error |-> Unset]>>
      \/ reply # "output" /\ n < MaxAttempts /\ llmPhase' = "attempt" /\ lastError' = reply /\ llmCalls' = << >>
      \/ reply # "output" /\ n = MaxAttempts /\ llmPhase' = "failed" /\ lastError' = reply
         /\ llmCalls' = <<[status |-> "failed", attempts |-> n, error |-> reply]>>
  BY <1>1 DEF Receive, Record
<1>7. LlmTyped'
  BY <1>1, <1>2, <1>6 DEF LlmInv, LlmTyped
<1>8. Answers'
  <2>1. \A i \in 1 .. n - 1 : calls'[i].reply \in Replies \ {"output"}
    BY <1>1, <1>2 DEF LlmInv, Answers
  <2> QED BY <1>1, <1>2, <1>3, <1>6, <2>1 DEF Answers
<1>9. Prompted'
  <2>1. \A i \in 1 .. n : calls'[i].prompt = PromptDue(calls, i)
    BY <1>1, <1>2, <1>3 DEF LlmInv, Prompted
  <2> QED BY <1>2, <1>4, <2>1 DEF Prompted
<1>10. Addressed'
  BY <1>1, <1>2, <1>3 DEF LlmInv, Addressed
<1>11. InMemory'
  BY <1>1, <1>2, <1>3, <1>5, <1>6 DEF InMemory
<1>12. Attempts'
  BY <1>1, <1>2, <1>3, <1>6 DEF Attempts
<1> QED BY <1>7, <1>8, <1>9, <1>10, <1>11, <1>12 DEF LlmInv

LEMMA LlmStart == LlmInit => LlmInv
<1> SUFFICES ASSUME LlmInit PROVE LlmInv
  OBVIOUS
<1>1. calls \in Seq(LlmCallRecords) /\ Len(calls) = 0
  BY EmptySeq DEF LlmInit
<1> QED BY <1>1 DEF LlmInit, LlmInv, LlmTyped, Answers, Prompted, Addressed, InMemory, Attempts

LEMMA LlmStep == LlmInv /\ [LlmNext]_llmVars => LlmInv'
<1> SUFFICES ASSUME LlmInv, [LlmNext]_llmVars PROVE LlmInv'
  OBVIOUS
<1>1. CASE UNCHANGED llmVars
  BY <1>1 DEF llmVars, LlmInv, LlmTyped, Answers, Prompted, Addressed, InMemory, Attempts, MaxAttempts
<1> QED BY <1>1, StepExecute, StepSend, StepReceive DEF LlmNext

LEMMA LlmAccounted == LlmInv => CallsAccounted
<1> SUFFICES ASSUME LlmInv PROVE CallsAccounted
  OBVIOUS
<1>1. KeysStayHome
  <2> SUFFICES ASSUME NEW i \in 1 .. Len(calls)
               PROVE  /\ calls[i].key # Unset /\ calls[i].to # Unset
                      /\ calls[i].key = "OPENAI_API_KEY" => calls[i].to # "deepseek"
                      /\ calls[i].key = "DEEPSEEK_API_KEY" => calls[i].to # "openai"
    BY DEF KeysStayHome
  <2>1. llmPhase # "idle"
    BY DEF LlmInv, LlmTyped
  <2>2. Loads(llmEnv) /\ llmEnv.provider # "mock"
    BY <2>1 DEF LlmInv, LlmTyped
  <2>3. calls[i].to = HostOf(llmEnv) /\ calls[i].key = KeyOf(llmEnv)
    BY DEF LlmInv, Addressed
  <2>4. Unset \notin LlmKeys \union LlmHosts
    BY LlmAssumption DEF LlmKeys, LlmHosts
  <2> QED BY <2>2, <2>3, <2>4, KeysFacts
<1>2. \A i \in 1 .. Len(calls) :
        calls[i].prompt = IF i = 1 THEN Task ELSE RepairPrompt(calls[i - 1].reply, TextBefore(i))
  <2>1. \A i \in 1 .. Len(calls) : TextBefore(i) = LatestText(calls, i)
    BY DEF TextBefore, LatestText, Texts, TextOf
  <2> QED BY <2>1 DEF LlmInv, Prompted, PromptDue
<1>3. llmPhase # "idle" => Len(calls) <= MaxAttempts
  BY AttemptsAreMany DEF LlmInv, LlmTyped, Attempts
<1>4. \A i \in 1 .. Len(calls) - 1 : calls[i].reply # "output"
  BY DEF LlmInv, Answers
<1>5. llmPhase \in {"completed", "failed"} =>
        /\ Len(llmCalls) = 1
        /\ llmCalls[1].status = llmPhase /\ llmCalls[1].attempts = Len(calls)
        /\ llmPhase = "completed" <=> calls[Len(calls)].reply = "output"
        /\ llmPhase = "failed" => llmCalls[1].error = calls[Len(calls)].reply /\ Len(calls) = MaxAttempts
  BY DEF LlmInv, Answers, Attempts
<1> QED BY <1>1, <1>2, <1>3, <1>4, <1>5 DEF CallsAccounted, RequestAccounted

\* Every environment, retry policy and run of replies: a node makes between one and all of
\* its attempts and is recorded once, with how the last one ended; a retry shows the error
\* just before it and the latest text (OpenAICompatibleLLMClient.buildUserContent); no
\* provider's key goes to another (LLMConfigLoader.fromEnv).
THEOREM CallsAreAccounted == LlmSpec => []CallsAccounted
  BY LlmStart, LlmStep, LlmAccounted, PTL DEF LlmSpec

-----------------------------------------------------------------------------
(* OpenCode entry: the inductive invariants.                               *)

\* An instruction is made of one entry's words.
Arguments == [profile : Profiles, allowLLM : BOOLEAN]
AskedWith(t) ==
  t.at = "asked" => t.args \in Arguments /\ (t.args.allowLLM /\ UsesLLM(t.args.profile) => t.wants)

TurnTyped(t) ==
  /\ t = [at |-> t.at, args |-> t.args, wants |-> t.wants]
  /\ t.at \in {"idle", "asked", "waiting", "answered", "answering"}
  /\ AskedWith(t)

EntryTyped ==
  /\ turns \in [ChatSessions -> Nat]
  /\ DOMAIN turn = ChatSessions /\ \A s \in ChatSessions : TurnTyped(turn[s])
  /\ DOMAIN serving \subseteq ChatSessions \X Nat
  /\ remembered \in [ChatSessions -> (ChatSessions \X Nat) \union {Nobody}]
  /\ shown \subseteq ChatSessions \X Nat \X (ChatSessions \X Nat)

NeverShown(call) == \A x \in shown : x[3] # call

\* A result that waits to be shown is an own one of its session, shown nowhere yet; in a
\* session without aborted turns it is that of the turn which is being answered.
Waiting(s, call) ==
  /\ call[1] = s /\ call[2] <= turns[s] /\ NeverShown(call)
  /\ s \notin aborted => turn[s].at = "answering" /\ call = Call(s)

Delivered ==
  /\ \A s \in ChatSessions : remembered[s] # Nobody => Waiting(s, remembered[s])
  /\ \A s \in ChatSessions : turn[s].at \in {"asked", "waiting", "answered"} => NeverShown(Call(s))
  /\ \A x \in shown : x[3][1] = x[1] /\ x[3][2] <= turns[x[1]] /\ (x[3][2] # x[2] => x[1] \in aborted)
  /\ \A x, y \in shown : x[3] = y[3] => x = y

EntryInv == EntryTyped /\ Delivered /\ LlmIsAskedFor

-----------------------------------------------------------------------------
(* OpenCode entry: the steps.                                              *)

\* What an entry becomes allows a real LLM only where its words ask for one.
LEMMA InstructionAsks ==
  ASSUME NEW entry \in Entries
  PROVE  AskedWith([at |-> "asked", args |-> Instruction(entry), wants |-> Wants(entry)])
<1>1. entry.via \in EntryKinds /\ entry.flag \in BOOLEAN /\ entry.named \in Profiles \union {Nobody, "answer"}
  BY DEF Entries
<1>2. CASE entry.via = "chat" /\ entry.named \in Profiles
  BY <1>1, <1>2 DEF AskedWith, Instruction, Parsed, Wants, Arguments, Profiles, Basic, WithLLM, UsesLLM
<1>3. CASE entry.via = "chat" /\ entry.named \notin Profiles
  BY <1>1, <1>3 DEF AskedWith, Instruction, Parsed, Wants, Arguments, Profiles, Basic, WithLLM, UsesLLM
<1>4. CASE entry.via # "chat"
  BY <1>1, <1>4 DEF AskedWith, Instruction, Wants, Arguments, EntryKinds, Profiles, Basic, WithLLM, UsesLLM
<1> QED BY <1>2, <1>3, <1>4

\* A new turn has a number no result has.
LEMMA StepBegin ==
  ASSUME EntryInv, NEW s \in ChatSessions, NEW begun, Begin(s, begun),
         TurnTyped(begun), begun.at \in {"asked", "answering"}
  PROVE  EntryInv'
<1>1. /\ turn[s].at = "idle" /\ turns[s] \in Nat
      /\ turns' = [turns EXCEPT ![s] = @ + 1] /\ turn' = [turn EXCEPT ![s] = begun]
      /\ UNCHANGED <<serving, remembered, shown, aborted>>
  BY DEF Begin, EntryInv, EntryTyped
<1>2. /\ turns' \in [ChatSessions -> Nat] /\ turns'[s] = turns[s] + 1 /\ turn'[s] = begun
      /\ \A r \in ChatSessions \ {s} : turns'[r] = turns[r] /\ turn'[r] = turn[r]
      /\ DOMAIN turn' = ChatSessions
  BY <1>1 DEF EntryInv, EntryTyped
<1>3. EntryTyped'
  BY <1>1, <1>2 DEF EntryInv, EntryTyped, TurnTyped, AskedWith
<1>4. ASSUME NEW x \in shown
      PROVE  /\ x[3][1] = x[1] /\ x[3][2] \in Nat /\ x[1] \in ChatSessions
             /\ x[3][2] <= turns[x[1]] /\ (x[3][2] # x[2] => x[1] \in aborted)
  BY DEF EntryInv, EntryTyped, Delivered
<1>5. \A r \in ChatSessions : turns[r] \in Nat /\ turns'[r] \in Nat /\ turns[r] <= turns'[r]
  BY <1>1, <1>2 DEF EntryInv, EntryTyped
<1>6. ASSUME NEW r \in ChatSessions, remembered'[r] # Nobody PROVE Waiting(r, remembered[r])'
  <2>1. Waiting(r, remembered[r]) /\ remembered[r][2] \in Nat
    BY <1>1, <1>6 DEF EntryInv, EntryTyped, Delivered
  <2>2. remembered[r][2] <= turns'[r]
    BY <1>5, <2>1 DEF Waiting
  <2>3. r = s => r \in aborted
    BY <1>1, <2>1 DEF Waiting
  <2> QED BY <1>1, <1>2, <2>1, <2>2, <2>3 DEF Waiting, NeverShown, Call
<1>7. ASSUME NEW r \in ChatSessions, turn'[r].at \in {"asked", "waiting", "answered"}
      PROVE  NeverShown(Call(r))'
  <2>1. CASE r = s
    <3>1. \A x \in shown : x[3] # <<s, turns[s] + 1>>
      BY <1>1, <1>4
    <3> QED BY <1>1, <1>2, <2>1, <3>1 DEF NeverShown, Call
  <2>2. CASE r # s
    BY <1>1, <1>2, <1>7, <2>2 DEF NeverShown, Call, EntryInv, Delivered
  <2> QED BY <2>1, <2>2
<1>8. \A x \in shown : x[3][2] <= turns'[x[1]]
  BY <1>4, <1>5
<1>9. Delivered'
  BY <1>1, <1>4, <1>6, <1>7, <1>8 DEF EntryInv, Delivered
<1> QED BY <1>1, <1>3, <1>9 DEF EntryInv, LlmIsAskedFor

LEMMA StepEnter ==
  ASSUME EntryInv, NEW s \in ChatSessions, NEW entry \in Entries, Enter(s, entry)
  PROVE  EntryInv'
<1>1. TurnTyped([at |-> "asked", args |-> Instruction(entry), wants |-> Wants(entry)])
  BY InstructionAsks DEF TurnTyped
<1> QED BY <1>1, StepBegin DEF Enter

LEMMA StepChat == ASSUME EntryInv, NEW s \in ChatSessions, Chat(s) PROVE EntryInv'
<1>1. TurnTyped([at |-> "answering", args |-> Nobody, wants |-> FALSE])
  BY DEF TurnTyped, AskedWith
<1> QED BY <1>1, StepBegin DEF Chat

LEMMA TurnMoves ==
  ASSUME EntryTyped, NEW s \in ChatSessions, NEW place, MoveTurn(s, place),
         place \in {"idle", "waiting", "answered", "answering"}
  PROVE  /\ DOMAIN turn' = ChatSessions /\ turn'[s].at = place
         /\ \A r \in ChatSessions \ {s} : turn'[r] = turn[r]
         /\ \A r \in ChatSessions : TurnTyped(turn'[r])
<1>1. TurnTyped(turn[s])
  BY DEF EntryTyped
<1>2. turn' = [turn EXCEPT ![s] = [at |-> place, args |-> turn[s].args, wants |-> turn[s].wants]]
  <2>1. [turn[s] EXCEPT !.at = place] = [at |-> place, args |-> turn[s].args, wants |-> turn[s].wants]
    BY <1>1 DEF TurnTyped
  <2>2. turn' = [turn EXCEPT ![s] = [turn[s] EXCEPT !.at = place]]
    BY DEF MoveTurn
  <2> QED BY <2>1, <2>2
<1>3. /\ DOMAIN turn' = ChatSessions /\ \A r \in ChatSessions \ {s} : turn'[r] = turn[r]
      /\ turn'[s] = [at |-> place, args |-> turn[s].args, wants |-> turn[s].wants]
  BY <1>2 DEF EntryTyped
<1>4. TurnTyped(turn'[s])
  BY <1>3 DEF TurnTyped, AskedWith
<1> QED BY <1>3, <1>4 DEF EntryTyped

\* A run that starts was allowed by the turn's arguments.
LEMMA StepCallTool == ASSUME EntryInv, NEW s \in ChatSessions, CallTool(s) PROVE EntryInv'
<1>1. /\ turn[s].at = "asked" /\ UNCHANGED <<turns, remembered, shown, aborted>>
      /\ TurnTyped(turn[s]) /\ turns[s] \in Nat
  BY DEF CallTool, EntryInv, EntryTyped
<1>2. PICK place \in {"answered", "waiting"} : MoveTurn(s, place)
  BY DEF CallTool
<1>3. /\ DOMAIN turn' = ChatSessions /\ turn'[s].at = place
      /\ \A r \in ChatSessions \ {s} : turn'[r] = turn[r]
      /\ \A r \in ChatSessions : TurnTyped(turn'[r])
  BY <1>2, TurnMoves DEF EntryInv
<1>4. DOMAIN serving' \subseteq ChatSessions \X Nat /\ LlmIsAskedFor'
  <2>1. CASE UNCHANGED serving
    BY <2>1 DEF EntryInv, EntryTyped, LlmIsAskedFor
  <2>2. CASE ~Refuses(turn[s].args) /\ Capture(Call(s), turn[s].args, turn[s].wants)
    <3> DEFINE t == turn[s]
               saved == [console |-> console, llm |-> UsesLLM(t.args.profile), wants |-> t.wants]
    <3>1. UsesLLM(t.args.profile) => t.wants
      BY <1>1, <2>2 DEF TurnTyped, AskedWith, Refuses
    <3>2. /\ DOMAIN serving' = DOMAIN serving \union {Call(s)}
          /\ \A c \in DOMAIN serving' : serving'[c] = IF c = Call(s) THEN saved ELSE serving[c]
      BY <2>2 DEF Capture
    <3>3. saved.llm => saved.wants
      BY <3>1
    <3>4. Call(s) \in ChatSessions \X Nat
      BY <1>1 DEF Call
    <3> HIDE DEF saved
    <3>5. \A c \in DOMAIN serving' : serving'[c].llm => serving'[c].wants
      BY <3>2, <3>3 DEF EntryInv, LlmIsAskedFor
    <3> QED BY <3>2, <3>4, <3>5 DEF EntryInv, EntryTyped, LlmIsAskedFor
  <2> QED BY <2>1, <2>2 DEF CallTool
<1>5. \A r \in ChatSessions : remembered[r] # Nobody => Waiting(r, remembered[r])'
  BY <1>1, <1>3 DEF EntryInv, Delivered, Waiting, NeverShown, Call
<1>6. \A r \in ChatSessions :
        turn'[r].at \in {"asked", "waiting", "answered"} => turn[r].at \in {"asked", "waiting", "answered"}
  BY <1>1, <1>3
<1> QED BY <1>1, <1>3, <1>4, <1>5, <1>6 DEF EntryInv, EntryTyped, Delivered, NeverShown, Call

LEMMA StepEndRun == ASSUME EntryInv, NEW call \in DOMAIN serving, EndRun(call) PROVE EntryInv'
<1>1. /\ UNCHANGED <<turns, remembered, shown, aborted>> /\ call[1] \in ChatSessions
      /\ serving' = [c \in DOMAIN serving \ {call} |-> serving[c]]
  BY DEF EndRun, EntryInv, EntryTyped
<1>2. /\ DOMAIN serving' \subseteq DOMAIN serving
      /\ \A c \in DOMAIN serving' : serving'[c] = serving[c]
  BY <1>1
<1>3. \/ UNCHANGED turn
      \/ turn[call[1]].at = "waiting" /\ MoveTurn(call[1], "answered")
  BY DEF EndRun
<1>4. /\ DOMAIN turn' = ChatSessions /\ \A r \in ChatSessions : TurnTyped(turn'[r])
      /\ \A r \in ChatSessions : turn'[r] = turn[r] \/ (turn[r].at = "waiting" /\ turn'[r].at = "answered")
  <2>1. CASE UNCHANGED turn
    BY <2>1 DEF EntryInv, EntryTyped
  <2>2. CASE turn[call[1]].at = "waiting" /\ MoveTurn(call[1], "answered")
    BY <1>1, <2>2, TurnMoves DEF EntryInv
  <2> QED BY <1>3, <2>1, <2>2
<1>5. \A r \in ChatSessions : remembered[r] # Nobody => Waiting(r, remembered[r])'
  BY <1>1, <1>4 DEF EntryInv, Delivered, Waiting, NeverShown, Call
<1>6. \A r \in ChatSessions :
        turn'[r].at \in {"asked", "waiting", "answered"} => turn[r].at \in {"asked", "waiting", "answered"}
  BY <1>4
<1> QED BY <1>1, <1>2, <1>4, <1>5, <1>6 DEF EntryInv, EntryTyped, Delivered, NeverShown, Call, LlmIsAskedFor

LEMMA StepAfterTool == ASSUME EntryInv, NEW s \in ChatSessions, AfterTool(s) PROVE EntryInv'
<1>1. /\ turn[s].at = "answered" /\ turns[s] \in Nat /\ UNCHANGED <<turns, serving, shown, aborted>>
      /\ remembered' = [remembered EXCEPT ![s] = Call(s)] /\ MoveTurn(s, "answering")
  BY DEF AfterTool, Remember, EntryInv, EntryTyped
<1>2. /\ DOMAIN turn' = ChatSessions /\ turn'[s].at = "answering"
      /\ \A r \in ChatSessions \ {s} : turn'[r] = turn[r]
      /\ \A r \in ChatSessions : TurnTyped(turn'[r])
  BY <1>1, TurnMoves DEF EntryInv
<1>3. Call(s) \in ChatSessions \X Nat /\ Call(s)[1] = s /\ Call(s)[2] = turns[s]
  BY <1>1 DEF Call
<1>4. /\ remembered' \in [ChatSessions -> (ChatSessions \X Nat) \union {Nobody}]
      /\ remembered'[s] = Call(s) /\ \A r \in ChatSessions \ {s} : remembered'[r] = remembered[r]
  BY <1>1, <1>3 DEF EntryInv, EntryTyped
<1>5. \A r \in ChatSessions : remembered'[r] # Nobody => Waiting(r, remembered[r])'
  <2>1. NeverShown(Call(s))
    BY <1>1 DEF EntryInv, Delivered
  <2>2. Waiting(s, remembered[s])'
    BY <1>1, <1>2, <1>3, <1>4, <2>1 DEF Waiting, NeverShown, Call
  <2>3. \A r \in ChatSessions \ {s} : remembered'[r] # Nobody => Waiting(r, remembered[r])'
    BY <1>1, <1>2, <1>4 DEF EntryInv, Delivered, Waiting, NeverShown, Call
  <2> QED BY <2>2, <2>3
<1>6. \A r \in ChatSessions :
        turn'[r].at \in {"asked", "waiting", "answered"} => turn[r].at \in {"asked", "waiting", "answered"}
  BY <1>1, <1>2
<1> QED BY <1>1, <1>2, <1>4, <1>5, <1>6 DEF EntryInv, EntryTyped, Delivered, NeverShown, Call, LlmIsAskedFor

LEMMA StepToolFails == ASSUME EntryInv, NEW s \in ChatSessions, ToolFails(s) PROVE EntryInv'
<1>1. /\ turn[s].at = "asked" /\ UNCHANGED <<turns, serving, remembered, shown, aborted>>
      /\ MoveTurn(s, "answering")
  BY DEF ToolFails
<1>2. /\ DOMAIN turn' = ChatSessions /\ turn'[s].at = "answering"
      /\ \A r \in ChatSessions \ {s} : turn'[r] = turn[r]
      /\ \A r \in ChatSessions : TurnTyped(turn'[r])
  BY <1>1, TurnMoves DEF EntryInv
<1>3. \A r \in ChatSessions : remembered[r] # Nobody => Waiting(r, remembered[r])'
  BY <1>1, <1>2 DEF EntryInv, Delivered, Waiting, NeverShown, Call
<1>4. \A r \in ChatSessions :
        turn'[r].at \in {"asked", "waiting", "answered"} => turn[r].at \in {"asked", "waiting", "answered"}
  BY <1>1, <1>2
<1> QED BY <1>1, <1>2, <1>3, <1>4 DEF EntryInv, EntryTyped, Delivered, NeverShown, Call, LlmIsAskedFor

LEMMA Rests ==
  ASSUME EntryTyped, NEW s \in ChatSessions, turn' = [turn EXCEPT ![s] = Resting]
  PROVE  /\ DOMAIN turn' = ChatSessions /\ turn'[s].at = "idle"
         /\ \A r \in ChatSessions \ {s} : turn'[r] = turn[r]
         /\ \A r \in ChatSessions : TurnTyped(turn'[r])
<1>1. TurnTyped(Resting) /\ Resting.at = "idle"
  BY DEF TurnTyped, AskedWith, Resting
<1>2. /\ DOMAIN turn' = ChatSessions /\ turn'[s] = Resting
      /\ \A r \in ChatSessions \ {s} : turn'[r] = turn[r]
  BY DEF EntryTyped
<1> QED BY <1>1, <1>2 DEF EntryTyped

\* What is shown is taken out of the plugin's memory.
LEMMA StepCompleteText == ASSUME EntryInv, NEW s \in ChatSessions, CompleteText(s) PROVE EntryInv'
<1> DEFINE new == <<s, turns[s], remembered[s]>>
<1>1. /\ turn[s].at = "answering" /\ turns[s] \in Nat /\ UNCHANGED <<turns, serving, aborted>>
      /\ shown' = IF remembered[s] = Nobody THEN shown ELSE shown \union {new}
      /\ remembered' = [remembered EXCEPT ![s] = Nobody]
      /\ turn' = [turn EXCEPT ![s] = Resting]
  BY DEF CompleteText, EntryInv, EntryTyped
<1>2. /\ DOMAIN turn' = ChatSessions /\ turn'[s].at = "idle"
      /\ \A r \in ChatSessions \ {s} : turn'[r] = turn[r]
      /\ \A r \in ChatSessions : TurnTyped(turn'[r])
  BY <1>1, Rests DEF EntryInv
<1>3. /\ remembered' \in [ChatSessions -> (ChatSessions \X Nat) \union {Nobody}]
      /\ remembered'[s] = Nobody /\ \A r \in ChatSessions \ {s} : remembered'[r] = remembered[r]
  BY <1>1 DEF EntryInv, EntryTyped
<1>4. CASE remembered[s] = Nobody
  <2>1. shown' = shown
    BY <1>1, <1>4
  <2>2. \A r \in ChatSessions : remembered'[r] # Nobody => Waiting(r, remembered[r])'
    BY <1>1, <1>2, <1>3, <2>1 DEF EntryInv, Delivered, Waiting, NeverShown, Call
  <2>3. \A r \in ChatSessions :
          turn'[r].at \in {"asked", "waiting", "answered"} => turn[r].at \in {"asked", "waiting", "answered"}
    BY <1>1, <1>2
  <2> QED BY <1>1, <1>2, <1>3, <2>1, <2>2, <2>3
      DEF EntryInv, EntryTyped, Delivered, NeverShown, Call, LlmIsAskedFor
<1>5. CASE remembered[s] # Nobody
  <2>1. /\ Waiting(s, remembered[s]) /\ remembered[s] \in ChatSessions \X Nat
        /\ shown' = shown \union {new}
    BY <1>1, <1>5 DEF EntryInv, EntryTyped, Delivered
  <2>2. new[1] = s /\ new[2] = turns[s] /\ new[3] = remembered[s] /\ new \in ChatSessions \X Nat \X (ChatSessions \X Nat)
    BY <1>1, <2>1
  <2>3. /\ new[3][1] = new[1] /\ new[3][2] <= turns[new[1]]
        /\ new[3][2] # new[2] => new[1] \in aborted
    BY <2>1, <2>2 DEF Waiting, Call
  <2> HIDE DEF new
  <2>4. \A x \in shown : x[3] # new[3]
    BY <2>1, <2>2 DEF Waiting, NeverShown
  <2>5. \A x, y \in shown' : x[3] = y[3] => x = y
    BY <2>1, <2>4 DEF EntryInv, Delivered
  <2>6. \A x \in shown' : x[3][1] = x[1] /\ x[3][2] <= turns[x[1]] /\ (x[3][2] # x[2] => x[1] \in aborted)
    BY <2>1, <2>3 DEF EntryInv, Delivered
  <2>7. ASSUME NEW r \in ChatSessions, remembered'[r] # Nobody PROVE Waiting(r, remembered[r])'
    <3>1. r # s /\ Waiting(r, remembered[r]) /\ remembered'[r] = remembered[r]
      BY <1>3, <2>7 DEF EntryInv, Delivered
    <3>2. remembered[r] # new[3]
      BY <2>1, <2>2, <3>1 DEF Waiting
    <3> QED BY <1>1, <1>2, <2>1, <3>1, <3>2 DEF Waiting, NeverShown, Call
  <2>8. ASSUME NEW r \in ChatSessions, turn'[r].at \in {"asked", "waiting", "answered"}
        PROVE  NeverShown(Call(r))'
    <3>1. r # s /\ turn'[r] = turn[r] /\ NeverShown(Call(r))
      BY <1>2, <2>8 DEF EntryInv, Delivered
    <3>2. Call(r)[1] = r /\ remembered[s][1] = s
      BY <2>1 DEF Call, Waiting
    <3>3. Call(r) # new[3]
      BY <2>2, <3>1, <3>2
    <3> QED BY <1>1, <2>1, <3>1, <3>3 DEF NeverShown, Call
  <2>9. shown' \subseteq ChatSessions \X Nat \X (ChatSessions \X Nat)
    BY <2>1, <2>2 DEF EntryInv, EntryTyped
  <2>10. EntryTyped'
    BY <1>1, <1>2, <1>3, <2>9 DEF EntryInv, EntryTyped
  <2>11. Delivered'
    BY <1>1, <2>5, <2>6, <2>7, <2>8 DEF Delivered
  <2> QED BY <1>1, <2>10, <2>11 DEF EntryInv, LlmIsAskedFor
<1> QED BY <1>4, <1>5

LEMMA StepAbort == ASSUME EntryInv, NEW s \in ChatSessions, Abort(s) PROVE EntryInv'
<1>1. /\ UNCHANGED <<turns, serving, remembered, shown>> /\ aborted' = aborted \union {s}
      /\ turn' = [turn EXCEPT ![s] = Resting]
  BY DEF Abort
<1>2. /\ DOMAIN turn' = ChatSessions /\ turn'[s].at = "idle"
      /\ \A r \in ChatSessions \ {s} : turn'[r] = turn[r]
      /\ \A r \in ChatSessions : TurnTyped(turn'[r])
  BY <1>1, Rests DEF EntryInv
<1>3. \A r \in ChatSessions : remembered[r] # Nobody => Waiting(r, remembered[r])'
  BY <1>1, <1>2 DEF EntryInv, Delivered, Waiting, NeverShown, Call
<1>4. \A r \in ChatSessions :
        turn'[r].at \in {"asked", "waiting", "answered"} => turn[r].at \in {"asked", "waiting", "answered"}
  BY <1>1, <1>2
<1> QED BY <1>1, <1>2, <1>3, <1>4 DEF EntryInv, EntryTyped, Delivered, NeverShown, Call, LlmIsAskedFor

LEMMA EntryStart == EntryInit => EntryInv
<1> SUFFICES ASSUME EntryInit PROVE EntryInv
  OBVIOUS
<1>1. DOMAIN serving = {}
  BY DEF EntryInit
<1>2. TurnTyped(Resting) /\ Resting.at = "idle"
  BY DEF TurnTyped, AskedWith, Resting
<1>3. EntryTyped
  BY <1>1, <1>2 DEF EntryInit, EntryTyped
<1> QED BY <1>1, <1>2, <1>3 DEF EntryInit, EntryInv, Delivered, LlmIsAskedFor

LEMMA EntryStep == EntryInv /\ [EntryNext]_entryVars => EntryInv'
<1> SUFFICES ASSUME EntryInv, [EntryNext]_entryVars PROVE EntryInv'
  OBVIOUS
<1>1. CASE UNCHANGED <<turns, turn, serving, remembered, shown, aborted>>
  BY <1>1 DEF EntryInv, EntryTyped, Delivered, Waiting, NeverShown, Call, LlmIsAskedFor
<1>2. CASE UNCHANGED entryVars
  BY <1>1, <1>2 DEF entryVars
<1>3. CASE \E call \in DOMAIN serving : LogNode(call)
  BY <1>1, <1>3 DEF LogNode
<1> QED BY <1>2, <1>3, StepEnter, StepChat, StepCallTool, StepAfterTool, StepToolFails,
           StepCompleteText, StepAbort, StepEndRun DEF EntryNext

LEMMA EntrySafe == EntryInv => EntryIsFaithful
  BY DEF EntryInv, Delivered, ShownToAsker, EntryIsFaithful

\* A run's text is shown at most once and to the session that asked for it, and no real LLM
\* runs unasked, however tool calls overlap (AgentFlowWorkflowInterceptorCore).
THEOREM AnswersGoHome == EntrySpec => []EntryIsFaithful
  BY EntryStart, EntryStep, EntrySafe, PTL DEF EntrySpec

-----------------------------------------------------------------------------
(* Roles: the inductive invariant.                                         *)

LookupTyped(k) ==
  /\ k = Lookup(k.at, k.role, k.next, k.result)
  /\ k.at \in {"idle", "listing", "reading", "done"} /\ k.next \in 1 .. Len(RoleFiles)
  /\ k.at \in {"idle", "listing"} => k.next = 1
  /\ k.result # NotCached => k.at = "done"

\* The cache is there from the first answer of readdir on.
CacheTyped ==
  /\ DOMAIN lookup = Lookups /\ \A l \in Lookups : LookupTyped(lookup[l])
  /\ roleCache = NotCached \/ roleCache \in SUBSET Roles
  /\ roleCache # NotCached <=> \E l \in Lookups : lookup[l].at \in {"reading", "done"}
  /\ \A l \in resetsAfter : l \in Lookups /\ lookup[l].at \in {"reading", "done"}

ReadSoFar(n) == {RoleFiles[i] : i \in 1 .. n - 1}

\* A reader whose cache nobody reset has put there what it read, and until the cache
\* is full there is such a reader.
Filling ==
  badRoles = {} =>
    /\ \A l \in Loading \ resetsAfter : ReadSoFar(lookup[l].next) \subseteq roleCache
    /\ roleCache # NotCached => Roles \subseteq roleCache \/ Loading \ resetsAfter # {}

Findings ==
  \A l \in Lookups :
    /\ lookup[l].result = "found" => lookup[l].role \in Roles
    /\ badRoles = {} /\ lookup[l].result = "not found" => lookup[l].role \notin Roles \/ l \in resetsAfter

RoleInv == CacheTyped /\ Filling /\ Findings

-----------------------------------------------------------------------------
(* Roles: the steps.                                                       *)

LEMMA RoleFilesFacts ==
  RoleFiles \in Seq(Roles) /\ Len(RoleFiles) \in Nat /\ 1 \in 1 .. Len(RoleFiles)
<1>1. RoleFiles \in Seq(Roles) /\ Len(RoleFiles) > 0
  BY RoleAssumption
<1>2. Len(RoleFiles) \in Nat
  BY <1>1
<1> QED BY <1>1, <1>2

LEMMA NoCache == \A cached \in SUBSET Roles : NotCached # cached
  BY RoleAssumption

LEMMA NoAnswer == NotCached # "found" /\ NotCached # "not found"
  BY RoleAssumption

LEMMA StepSpoil == ASSUME RoleInv, NEW bad, Spoil(bad) PROVE RoleInv'
<1>1. \A l \in Lookups : lookup[l].at = "idle" /\ lookup[l].result = NotCached
  BY DEF Spoil, RoleInv, CacheTyped, LookupTyped
<1>2. roleCache = NotCached /\ UNCHANGED <<roleCache, lookup, resetsAfter>>
  BY <1>1 DEF Spoil, RoleInv, CacheTyped
<1> QED BY <1>1, <1>2, NoAnswer DEF RoleInv, CacheTyped, Filling, Findings, Loading

LEMMA StepAsk == ASSUME RoleInv, NEW l \in Lookups, NEW role, Ask(l, role) PROVE RoleInv'
<1>1. /\ lookup[l].at = "idle" /\ l \notin resetsAfter /\ DOMAIN lookup = Lookups /\ 1 \in 1 .. Len(RoleFiles)
      /\ UNCHANGED <<badRoles, roleCache, resetsAfter>>
  BY RoleFilesFacts DEF Ask, RoleInv, CacheTyped
<1>2. CASE roleCache = NotCached
  <2>1. /\ DOMAIN lookup' = Lookups /\ \A k \in Lookups \ {l} : lookup'[k] = lookup[k]
        /\ lookup'[l] = Lookup("listing", role, 1, NotCached)
    BY <1>1, <1>2 DEF Ask
  <2>2. \A k \in Lookups : lookup[k].at \notin {"reading", "done"} /\ lookup[k].result = NotCached
    BY <1>2 DEF RoleInv, CacheTyped, LookupTyped
  <2>3. LookupTyped(lookup'[l])
    BY <1>1, <2>1 DEF LookupTyped, Lookup
  <2>4. CacheTyped'
    BY <1>1, <1>2, <2>1, <2>2, <2>3 DEF RoleInv, CacheTyped, Lookup
  <2>5. Loading' = {}
    BY <2>1, <2>2 DEF Loading, Lookup
  <2>6. \A k \in Lookups : lookup'[k].result = NotCached
    BY <2>1, <2>2 DEF Lookup
  <2> QED BY <1>1, <1>2, <2>4, <2>5, <2>6, NoAnswer DEF RoleInv, Filling, Findings
<1>3. CASE roleCache # NotCached
  <2> DEFINE found == Found(role, roleCache)
  <2>1. /\ DOMAIN lookup' = Lookups /\ \A k \in Lookups \ {l} : lookup'[k] = lookup[k]
        /\ lookup'[l] = Lookup("done", role, 1, found)
    BY <1>1, <1>3 DEF Ask
  <2>2. (\A k \in Lookups : lookup[k].at # "reading") /\ roleCache \in SUBSET Roles
    BY <1>3 DEF RoleInv, CacheTyped, Ask, MayAsk
  <2>3. badRoles = {} => Roles \subseteq roleCache
    BY <1>3, <2>2 DEF RoleInv, Filling, Loading
  <2>4. /\ found = "found" => role \in Roles
        /\ badRoles = {} /\ found = "not found" => role \notin Roles
    BY <2>2, <2>3 DEF Found
  <2> HIDE DEF found
  <2>5. LookupTyped(lookup'[l])
    BY <1>1, <2>1 DEF LookupTyped, Lookup
  <2>6. CacheTyped'
    BY <1>1, <1>3, <2>1, <2>5 DEF RoleInv, CacheTyped, Lookup
  <2>7. Loading' = {}
    BY <2>1, <2>2 DEF Loading, Lookup
  <2>8. Findings'
    <3>1. lookup'[l].role = role /\ lookup'[l].result = found
      BY <2>1 DEF Lookup
    <3>2. \A k \in Lookups \ {l} : lookup'[k] = lookup[k]
      BY <2>1
    <3> QED BY <1>1, <2>4, <3>1, <3>2 DEF RoleInv, Findings
  <2> QED BY <1>1, <2>3, <2>6, <2>7, <2>8 DEF RoleInv, Filling
<1> QED BY <1>2, <1>3

LEMMA StepListed == ASSUME RoleInv, NEW l \in Lookups, Listed(l) PROVE RoleInv'
<1> DEFINE was == lookup[l]
<1>1. /\ was.at = "listing" /\ was.next = 1 /\ LookupTyped(was) /\ l \notin resetsAfter
      /\ roleCache' = {} /\ resetsAfter' = resetsAfter \union Loading /\ UNCHANGED badRoles
      /\ lookup' = [lookup EXCEPT ![l] = [was EXCEPT !.at = "reading"]] /\ DOMAIN lookup = Lookups
  BY DEF Listed, RoleInv, CacheTyped, LookupTyped
<1>2. [was EXCEPT !.at = "reading"] = Lookup("reading", was.role, 1, NotCached)
  BY <1>1 DEF LookupTyped, Lookup
<1>3. /\ DOMAIN lookup' = Lookups /\ \A k \in Lookups \ {l} : lookup'[k] = lookup[k]
      /\ lookup'[l] = Lookup("reading", was.role, 1, NotCached)
  BY <1>1, <1>2
<1>4. LookupTyped(lookup'[l])
  BY <1>1, <1>3 DEF LookupTyped, Lookup
<1>5. NotCached # {} /\ l \notin Loading
  BY <1>1, NoCache DEF Loading
<1>6. CacheTyped'
  BY <1>1, <1>3, <1>4, <1>5 DEF RoleInv, CacheTyped, Loading, Lookup
<1>7. Loading' \ resetsAfter' = {l}
  <2>1. l \in Loading' /\ l \notin resetsAfter' /\ Loading' \subseteq Lookups
    BY <1>1, <1>3, <1>5 DEF Loading, Lookup
  <2>2. \A k \in Lookups \ {l} : k \in Loading' => k \in resetsAfter'
    BY <1>1, <1>3 DEF Loading
  <2> QED BY <2>1, <2>2
<1>8. Filling'
  BY <1>1, <1>3, <1>7 DEF Filling, ReadSoFar, Lookup
<1>9. Findings'
  <2>1. lookup'[l].result = NotCached
    BY <1>3 DEF Lookup
  <2>2. lookup'[l].result # "found" /\ lookup'[l].result # "not found"
    BY <2>1, NoAnswer
  <2> QED BY <1>1, <1>3, <2>2 DEF RoleInv, Findings
<1> QED BY <1>6, <1>8, <1>9 DEF RoleInv

\* What a reader has read stays in the cache it reads into.
LEMMA StepReadRole == ASSUME RoleInv, NEW l \in Lookups, ReadRole(l) PROVE RoleInv'
<1> DEFINE was == lookup[l]
           role == RoleFiles[was.next]
           found == Found(was.role, roleCache')
<1>1. /\ was.at = "reading" /\ was.next \in 1 .. Len(RoleFiles) /\ LookupTyped(was) /\ DOMAIN lookup = Lookups
      /\ roleCache \in SUBSET Roles /\ roleCache' = roleCache \union {role}
      /\ UNCHANGED <<badRoles, resetsAfter>>
  BY DEF ReadRole, RoleInv, CacheTyped, LookupTyped
<1>2. roleCache' \in SUBSET Roles /\ roleCache' # NotCached /\ roleCache # NotCached
  <2>1. role \in Roles
    BY <1>1 DEF Roles
  <2> QED BY <1>1, <2>1, NoCache
<1>3. /\ DOMAIN lookup' = Lookups /\ \A k \in Lookups \ {l} : lookup'[k] = lookup[k]
      /\ \/ was.next < Len(RoleFiles) /\ lookup'[l] = Lookup("reading", was.role, was.next + 1, NotCached)
         \/ was.next = Len(RoleFiles) /\ lookup'[l] = Lookup("done", was.role, was.next, found)
  <2>1. lookup' = [lookup EXCEPT ![l] =
                    IF was.next < Len(RoleFiles) THEN Lookup("reading", was.role, was.next + 1, NotCached)
                    ELSE Lookup("done", was.role, was.next, found)]
    BY DEF ReadRole
  <2> HIDE DEF found
  <2> QED BY <1>1, <2>1, RoleFilesFacts
<1>4. ReadSoFar(was.next) \union {role} = ReadSoFar(was.next + 1)
  BY <1>1 DEF ReadSoFar
<1>5. ReadSoFar(Len(RoleFiles) + 1) = Roles
  BY RoleFilesFacts DEF ReadSoFar, Roles
<1>6. badRoles = {} /\ l \notin resetsAfter => ReadSoFar(was.next + 1) \subseteq roleCache'
  <2>1. badRoles = {} /\ l \notin resetsAfter => ReadSoFar(was.next) \subseteq roleCache
    BY <1>1 DEF RoleInv, Filling, Loading
  <2> QED BY <1>1, <1>4, <2>1
<1> HIDE DEF role
<1>7. CacheTyped'
  <2>1. LookupTyped(lookup'[l]) /\ lookup'[l].at \in {"reading", "done"}
    BY <1>1, <1>3 DEF LookupTyped, Lookup
  <2> QED BY <1>1, <1>2, <1>3, <2>1 DEF RoleInv, CacheTyped
<1>8. Filling'
  <2>1. ASSUME badRoles = {}, NEW k \in Loading' \ resetsAfter
        PROVE  ReadSoFar(lookup'[k].next) \subseteq roleCache'
    <3>1. CASE k = l
      BY <1>3, <1>6, <2>1, <3>1 DEF Loading, Lookup
    <3>2. CASE k # l
      <4>1. k \in Loading \ resetsAfter /\ lookup'[k] = lookup[k]
        BY <1>3, <2>1, <3>2 DEF Loading
      <4> QED BY <1>1, <2>1, <4>1 DEF RoleInv, Filling
    <3> QED BY <3>1, <3>2
  <2>2. ASSUME badRoles = {}, ~(Roles \subseteq roleCache')
        PROVE  Loading' \ resetsAfter # {}
    <3>1. PICK k \in Loading \ resetsAfter : TRUE
      BY <1>1, <1>2, <2>2 DEF RoleInv, Filling
    <3>2. k \in Loading'
      <4>1. CASE k # l
        BY <1>3, <3>1, <4>1 DEF Loading
      <4>2. CASE k = l
        BY <1>3, <1>5, <1>6, <2>2, <3>1, <4>2 DEF Loading, Lookup
      <4> QED BY <4>1, <4>2
    <3> QED BY <3>1, <3>2
  <2> QED BY <1>1, <2>1, <2>2 DEF Filling
<1>9. Findings'
  <2>1. found = "found" => was.role \in Roles
    BY <1>2 DEF Found
  <2>2. badRoles = {} /\ l \notin resetsAfter /\ was.next = Len(RoleFiles) /\ found = "not found"
          => was.role \notin Roles
    BY <1>5, <1>6 DEF Found
  <2>3. lookup'[l].role = was.role /\ lookup'[l].result \in {NotCached, found}
        /\ (lookup'[l].result = NotCached \/ was.next = Len(RoleFiles))
    BY <1>3 DEF Lookup
  <2> HIDE DEF found
  <2>4. /\ lookup'[l].result = "found" => lookup'[l].role \in Roles
        /\ badRoles = {} /\ lookup'[l].result = "not found" => lookup'[l].role \notin Roles \/ l \in resetsAfter
    BY <2>1, <2>2, <2>3, NoAnswer
  <2> QED BY <1>1, <1>3, <2>4 DEF RoleInv, Findings
<1> QED BY <1>7, <1>8, <1>9 DEF RoleInv

LEMMA StepReadBadRole == ASSUME RoleInv, NEW l \in Lookups, ReadBadRole(l) PROVE RoleInv'
<1> DEFINE was == lookup[l]
<1>1. /\ was.at = "reading" /\ LookupTyped(was) /\ DOMAIN lookup = Lookups /\ badRoles # {}
      /\ lookup' = [lookup EXCEPT ![l] = Lookup("done", was.role, was.next, "error")]
      /\ UNCHANGED <<badRoles, roleCache, resetsAfter>>
  BY DEF ReadBadRole, RoleInv, CacheTyped
<1>2. /\ DOMAIN lookup' = Lookups /\ \A k \in Lookups \ {l} : lookup'[k] = lookup[k]
      /\ lookup'[l] = Lookup("done", was.role, was.next, "error")
  BY <1>1
<1>3. LookupTyped(lookup'[l])
  BY <1>1, <1>2 DEF LookupTyped, Lookup
<1>4. CacheTyped'
  BY <1>1, <1>2, <1>3 DEF RoleInv, CacheTyped, Lookup
<1> QED BY <1>1, <1>2, <1>4 DEF RoleInv, Filling, Findings, Lookup

LEMMA RoleStart == RoleInit => RoleInv
<1> SUFFICES ASSUME RoleInit PROVE RoleInv
  OBVIOUS
<1> QED BY RoleFilesFacts, NoAnswer
    DEF RoleInit, RoleInv, CacheTyped, Filling, Findings, LookupTyped, Lookup, Loading

LEMMA RoleStep == RoleInv /\ [RoleNext]_roleVars => RoleInv'
<1> SUFFICES ASSUME RoleInv, [RoleNext]_roleVars PROVE RoleInv'
  OBVIOUS
<1>1. CASE UNCHANGED roleVars
  BY <1>1 DEF roleVars, RoleInv, CacheTyped, Filling, Findings, Loading
<1> QED BY <1>1, StepSpoil, StepAsk, StepListed, StepReadRole, StepReadBadRole DEF RoleNext

LEMMA RolesSafe == RoleInv => RolesAreFound
<1> SUFFICES ASSUME RoleInv PROVE RolesAreFound
  OBVIOUS
<1>1. ASSUME badRoles = {}, roleCache # NotCached, \A l \in Lookups : lookup[l].at \in {"idle", "done"}
      PROVE  roleCache = Roles
  BY <1>1 DEF RoleInv, CacheTyped, Filling, Loading
<1> QED BY <1>1 DEF RoleInv, Findings, RolesAreFound

-----------------------------------------------------------------------------
(* Templates: the inductive invariant.                                     *)

IsFile(f) == f # NoFile /\ f # TornFile

\* What the scaffolder makes of existing roles and the validator accepts.
Made(t) == (\A n \in NodesOf(t) : n.preset \in Presets) /\ ValidatorAccepts(t)
Sound(f) == IsFile(f) => f \in HandWritten \/ Made(f)

\* What a creation has in hand: a template of its spec, once the validator has had it.
CreationTyped(r) ==
  /\ r = Creation(r.at, r.key, r.name, r.force, r.spec, r.template)
  /\ r.at \in {"idle", "spec", "names", "write"}
  /\ r.at # "idle" => r.key \in FileKeys /\ r.name \in FileKeys \union {NoFile} /\ r.spec \in Specs
  /\ r.at \in {"names", "write"} => r.template = ScaffoldOf(r.spec, r.name) /\ Made(r.template)

Creating ==
  /\ DOMAIN dir = FileKeys /\ \A k \in FileKeys : Sound(dir[k])
  /\ DOMAIN creating = Creators /\ \A c \in Creators : CreationTyped(creating[c])
  /\ creations \in Nat /\ (creations = 0 => Busy = {})

\* No other file has the name that is about to be written.
NameIsFree(r) == \A k \in FileKeys : IsFile(dir[k]) /\ dir[k].name = r.template.name => k = r.key

Uncrossed ==
  ~crossedKeys =>
    /\ \A c, d \in Busy : c = d
    /\ \A c \in Creators : creating[c].at = "write" => NameIsFree(creating[c])
    /\ \A j, k \in FileKeys : IsFile(dir[j]) /\ IsFile(dir[k]) /\ dir[j].name = dir[k].name => j = k

TemplateInv == Creating /\ Uncrossed

-----------------------------------------------------------------------------
(* Templates: the steps.                                                   *)

LEMMA StepWriteByHand ==
  ASSUME TemplateInv, NEW k \in FileKeys, NEW t \in HandWritten, WriteByHand(k, t)
  PROVE  TemplateInv'
<1>1. /\ Busy = {} /\ \A x \in FileKeys : dir[x] = NoFile
      /\ DOMAIN dir' = FileKeys /\ dir'[k] = t /\ \A x \in FileKeys \ {k} : dir'[x] = NoFile
      /\ UNCHANGED <<creating, creations, crossedKeys, Busy>>
  BY DEF WriteByHand, TemplateInv, Creating, Busy
<1>2. \A x \in FileKeys : Sound(dir'[x])
  BY <1>1 DEF Sound, IsFile
<1>3. \A x \in FileKeys : IsFile(dir'[x]) => x = k
  BY <1>1 DEF IsFile
<1>4. \A c \in Creators : creating[c].at # "write"
  BY <1>1 DEF Busy
<1> QED BY <1>1, <1>2, <1>3, <1>4 DEF TemplateInv, Creating, Uncrossed

\* A creation that starts beside another one crosses it.
LEMMA StepStartCreate ==
  ASSUME TemplateInv, NEW c \in Creators, NEW k \in FileKeys, NEW name \in FileKeys \union {NoFile},
         NEW force \in BOOLEAN, NEW spec \in Specs, StartCreate(c, k, name, force, spec)
  PROVE  TemplateInv'
<1>1. /\ c \notin Busy /\ UNCHANGED dir /\ creations' = creations + 1 /\ creations \in Nat
      /\ crossedKeys' = (crossedKeys \/ Busy # {}) /\ DOMAIN creating = Creators
  BY DEF StartCreate, TemplateInv, Creating
<1>2. CASE UNCHANGED creating
  <2>1. creations' \in Nat /\ creations' # 0
    BY <1>1
  <2>2. Creating'
    BY <1>1, <1>2, <2>1 DEF TemplateInv, Creating
  <2>3. ~crossedKeys' => ~crossedKeys
    BY <1>1
  <2>4. Uncrossed'
    BY <1>1, <1>2, <2>3 DEF TemplateInv, Uncrossed, Busy, NameIsFree
  <2> QED BY <2>2, <2>4 DEF TemplateInv
<1>3. CASE creating' = [creating EXCEPT ![c] = Creation("spec", k, name, force, spec, NoFile)]
  <2>1. /\ DOMAIN creating' = Creators /\ \A d \in Creators \ {c} : creating'[d] = creating[d]
        /\ creating'[c] = Creation("spec", k, name, force, spec, NoFile)
    BY <1>1, <1>3
  <2>2. CreationTyped(creating'[c]) /\ creating'[c].at = "spec"
    BY <2>1 DEF CreationTyped, Creation
  <2>3. creations' \in Nat /\ creations' # 0
    BY <1>1
  <2>4. Creating'
    BY <1>1, <2>1, <2>2, <2>3 DEF TemplateInv, Creating
  <2>5. ASSUME ~crossedKeys'
        PROVE  ~crossedKeys /\ \A d \in Creators : creating'[d].at # "idle" => d = c
    BY <1>1, <2>1, <2>5 DEF Busy
  <2>6. Uncrossed'
    BY <1>1, <2>2, <2>5 DEF TemplateInv, Uncrossed, Busy
  <2> QED BY <2>4, <2>6 DEF TemplateInv
<1> QED BY <1>2, <1>3 DEF StartCreate

\* A creator that moves on, or gives up, with the directory as it is.
LEMMA CreatorMoves ==
  ASSUME TemplateInv, NEW c \in Creators, creating[c].at # "idle", NEW r,
         creating' = [creating EXCEPT ![c] = r], CreationTyped(r),
         UNCHANGED <<dir, creations, crossedKeys>>,
         r.at = "write" => NameIsFree(r)
  PROVE  TemplateInv'
<1>1. /\ DOMAIN creating' = Creators /\ creating'[c] = r /\ c \in Busy
      /\ \A d \in Creators \ {c} : creating'[d] = creating[d]
  BY DEF TemplateInv, Creating, Busy
<1>2. Busy' \subseteq Busy
  BY <1>1 DEF Busy
<1>3. Creating'
  BY <1>1, <1>2 DEF TemplateInv, Creating
<1>4. \A d \in Creators : creating'[d].at = "write" => (creating[d].at = "write" /\ creating'[d] = creating[d]) \/ d = c
  BY <1>1
<1>5. Uncrossed'
  BY <1>1, <1>2, <1>4 DEF TemplateInv, Uncrossed, NameIsFree
<1> QED BY <1>3, <1>5 DEF TemplateInv

LEMMA NotCreatingTyped == CreationTyped(NotCreating) /\ NotCreating.at = "idle"
  BY DEF CreationTyped, NotCreating, Creation

LEMMA StepScaffold == ASSUME TemplateInv, NEW c \in Creators, Scaffold(c) PROVE TemplateInv'
<1> DEFINE was == creating[c]
           template == ScaffoldOf(was.spec, was.name)
           next == Creation("names", was.key, was.name, was.force, was.spec, template)
<1>1. /\ was.at = "spec" /\ CreationTyped(was) /\ UNCHANGED <<dir, creations, crossedKeys>>
  BY DEF Scaffold, TemplateInv, Creating
<1>2. \/ Made(template) /\ creating' = [creating EXCEPT ![c] = next]
      \/ creating' = [creating EXCEPT ![c] = NotCreating]
  BY DEF Scaffold, Give_up, Made
<1>3. Made(template) => CreationTyped(next)
  BY <1>1 DEF CreationTyped, Creation
<1>4. next.at = "names"
  BY DEF Creation
<1> HIDE DEF next, template
<1> QED BY <1>1, <1>2, <1>3, <1>4, CreatorMoves, NotCreatingTyped

LEMMA StepCheckNames == ASSUME TemplateInv, NEW c \in Creators, CheckNames(c) PROVE TemplateInv'
<1> DEFINE was == creating[c]
           next == Creation("write", was.key, was.name, was.force, was.spec, was.template)
<1>1. was.at = "names" /\ CreationTyped(was) /\ UNCHANGED <<dir, creations, crossedKeys>>
  BY DEF CheckNames, TemplateInv, Creating
<1>2. CASE /\ Listable /\ Named(was.template.name) \subseteq {was.key}
           /\ creating' = [creating EXCEPT ![c].at = "write"]
  <2>1. [was EXCEPT !.at = "write"] = next
    BY <1>1 DEF CreationTyped, Creation
  <2>2. creating' = [creating EXCEPT ![c] = next]
    BY <1>2, <2>1
  <2>3. CreationTyped(next) /\ next.template = was.template /\ next.key = was.key
    BY <1>1 DEF CreationTyped, Creation
  <2> HIDE DEF next
  <2>4. NameIsFree(next)
    BY <1>2, <2>3 DEF NameIsFree, Named, IsFile
  <2> QED BY <1>1, <2>2, <2>3, <2>4, CreatorMoves
<1>3. CASE creating' = [creating EXCEPT ![c] = NotCreating]
  BY <1>1, <1>3, CreatorMoves, NotCreatingTyped
<1> QED BY <1>2, <1>3 DEF CheckNames, Give_up

\* The file that is written, or torn, is the only one of its name, unless creations crossed.
LEMMA Writes ==
  ASSUME TemplateInv, NEW c \in Creators, creating[c].at = "write",
         NEW f \in {creating[c].template, TornFile},
         dir' = [dir EXCEPT ![creating[c].key] = f], Give_up(c),
         UNCHANGED <<creations, crossedKeys>>
  PROVE  TemplateInv'
<1> DEFINE r == creating[c]
<1>1. r.key \in FileKeys /\ Made(r.template)
  BY DEF TemplateInv, Creating, CreationTyped
<1>2. /\ DOMAIN dir' = FileKeys /\ dir'[r.key] = f
      /\ \A k \in FileKeys \ {r.key} : dir'[k] = dir[k]
  BY <1>1 DEF TemplateInv, Creating
<1>3. /\ DOMAIN creating' = Creators /\ creating'[c] = NotCreating /\ c \in Busy
      /\ \A d \in Creators \ {c} : creating'[d] = creating[d]
  BY DEF Give_up, TemplateInv, Creating, Busy
<1>4. Busy' = Busy \ {c}
  BY <1>3, NotCreatingTyped DEF Busy
<1>5. \A k \in FileKeys : Sound(dir'[k])
  BY <1>1, <1>2 DEF TemplateInv, Creating, Sound, IsFile
<1>6. Creating'
  BY <1>2, <1>3, <1>4, <1>5, NotCreatingTyped DEF TemplateInv, Creating
<1>7. ASSUME ~crossedKeys'
      PROVE  /\ Busy' = {} /\ NameIsFree(r)
             /\ \A j, k \in FileKeys : IsFile(dir[j]) /\ IsFile(dir[k]) /\ dir[j].name = dir[k].name => j = k
  BY <1>3, <1>4, <1>7 DEF TemplateInv, Uncrossed
<1>8. IsFile(f) => f = r.template
  BY DEF IsFile
<1>9. ASSUME ~crossedKeys', NEW j \in FileKeys, NEW k \in FileKeys,
             IsFile(dir'[j]), IsFile(dir'[k]), dir'[j].name = dir'[k].name
      PROVE  j = k
  BY <1>2, <1>7, <1>8, <1>9 DEF NameIsFree
<1>10. ~crossedKeys' => \A d \in Creators : creating'[d].at = "idle"
  BY <1>7 DEF Busy
<1>11. Uncrossed'
  BY <1>7, <1>9, <1>10 DEF Uncrossed
<1> QED BY <1>6, <1>11 DEF TemplateInv

LEMMA TemplateStart == TemplateInit => TemplateInv
<1> SUFFICES ASSUME TemplateInit PROVE TemplateInv
  OBVIOUS
<1>1. /\ DOMAIN dir = FileKeys /\ \A k \in FileKeys : ~IsFile(dir[k])
      /\ DOMAIN creating = Creators /\ \A c \in Creators : creating[c] = NotCreating
  BY DEF TemplateInit, IsFile
<1>2. Busy = {}
  BY <1>1, NotCreatingTyped DEF Busy
<1>3. Creating
  BY <1>1, <1>2, NotCreatingTyped DEF TemplateInit, Creating, Sound
<1>4. Uncrossed
  BY <1>1, <1>2, NotCreatingTyped DEF Uncrossed
<1> QED BY <1>3, <1>4 DEF TemplateInv

LEMMA TemplateStep == TemplateInv /\ [TemplateNext]_templateVars => TemplateInv'
<1> SUFFICES ASSUME TemplateInv, [TemplateNext]_templateVars PROVE TemplateInv'
  OBVIOUS
<1>1. CASE UNCHANGED templateVars
  BY <1>1 DEF templateVars, TemplateInv, Creating, Uncrossed, Busy, NameIsFree
<1>2. ASSUME NEW c \in Creators, WriteTemplate(c) PROVE TemplateInv'
  BY <1>2, Writes DEF WriteTemplate
<1>3. ASSUME NEW c \in Creators, TearTemplate(c) PROVE TemplateInv'
  BY <1>3, Writes DEF TearTemplate
<1> QED BY <1>1, <1>2, <1>3, StepWriteByHand, StepStartCreate, StepScaffold, StepCheckNames DEF TemplateNext

-----------------------------------------------------------------------------
(* Catalogs: the theorem.                                                  *)

\* What is made of existing roles is accepted by all three readers.
LEMMA MadeIsAccepted ==
  ASSUME NEW t, Made(t)
  PROVE  Completed(t) /\ GraphAccepted(t) /\ LoaderAccepts(t)
<1>1. Full(t) /\ GraphAccepted(t) /\ \A n \in NodesOf(t) : n.preset \in Presets
  BY DEF Made, ValidatorAccepts
<1>2. Completed(t)
  BY <1>1 DEF Completed, Full
<1>3. LoaderAccepts(t)
  BY <1>1 DEF LoaderAccepts, GraphAccepted
<1> QED BY <1>1, <1>2, <1>3

LEMMA NamesSafe == TemplateInv => NamesStandForOne
<1> SUFFICES ASSUME TemplateInv PROVE NamesStandForOne
  OBVIOUS
<1>1. ASSUME NEW j \in Whole, NEW k \in Whole, dir[j].name = dir[k].name, j # k PROVE crossedKeys
  BY <1>1 DEF Whole, IsFile, TemplateInv, Uncrossed
<1>2. ASSUME NEW key \in FileKeys, Resolve(key) # "error"
      PROVE  LET found == dir[Resolve(key)] IN
               /\ Resolve(key) = key \/ (found.name = key /\ \A k \in Whole : dir[k].name = key => k = Resolve(key))
               /\ \A i, j \in 1 .. Len(found.nodes) : i # j => found.nodes[i].id # found.nodes[j].id
  <2>1. CASE dir[key] # NoFile
    <3>1. Resolve(key) = key /\ GraphAccepted(dir[key])
      BY <1>2, <2>1 DEF Resolve, Readable
    <3> QED BY <3>1 DEF GraphAccepted
  <2>2. CASE dir[key] = NoFile
    <3>1. Listable /\ \E k \in FileKeys : Named(key) = {k}
      BY <1>2, <2>2 DEF Resolve
    <3>2. PICK k \in FileKeys : Named(key) = {k} /\ Resolve(key) = k
      BY <2>2, <3>1 DEF Resolve
    <3>3. k \in Named(key) /\ \A x \in Named(key) : x = k
      BY <3>2
    <3>4. dir[k] # NoFile /\ dir[k].name = key
      BY <3>3 DEF Named
    <3>5. GraphAccepted(dir[k])
      BY <3>1, <3>4 DEF Listable, Readable
    <3>6. \A x \in Whole : dir[x].name = key => x = k
      BY <3>3 DEF Whole, Named
    <3> QED BY <3>2, <3>4, <3>5, <3>6 DEF GraphAccepted
  <2> QED BY <2>1, <2>2
<1> QED BY <1>1, <1>2 DEF NamesStandForOne

LEMMA CreatedSafe == TemplateInv => CreatedIsReadable
<1> SUFFICES ASSUME TemplateInv, NEW k \in Whole, dir[k] \notin HandWritten
             PROVE  Readable(dir[k]) /\ Resolve(k) = k /\ LoaderAccepts(dir[k])
  BY DEF CreatedIsReadable
<1>1. k \in FileKeys /\ dir[k] # NoFile /\ dir[k] # TornFile
  BY DEF Whole
<1>2. Made(dir[k])
  BY <1>1 DEF TemplateInv, Creating, Sound, IsFile
<1>3. Completed(dir[k]) /\ GraphAccepted(dir[k]) /\ LoaderAccepts(dir[k])
  BY <1>2, MadeIsAccepted
<1> QED BY <1>1, <1>3 DEF Readable, Resolve

\* For any role files and lookups, an existing role is missed only by a lookup whose cache
\* another one emptied (RoleCatalog.listRoles); for any specs and creators, two files share a
\* template name only if their creations crossed, a search finds none of two, and what create
\* wrote the registry, where it misses no role, and the loader can read back
\* (TemplateCreateService.create, WorkflowTemplateRegistry, WorkflowLoader).
THEOREM CatalogsAreRight == RoleSpec /\ TemplateSpec => []CatalogsAnswer
<1>1. RoleInv /\ TemplateInv => CatalogsAnswer
  BY RolesSafe, NamesSafe, CreatedSafe DEF CatalogsAnswer
<1> QED BY <1>1, RoleStart, RoleStep, TemplateStart, TemplateStep, PTL DEF RoleSpec, TemplateSpec

-----------------------------------------------------------------------------
(* Verdicts.                                                               *)

LEMMA WhenFacts ==
  ASSUME NEW condition, NEW values, NEW x
  PROVE  x \in When(condition, values) <=> condition /\ x \in values
  BY DEF When

\* Quoting nothing but files whose names tell nothing.
LEMMA QuotesNothing ==
  ASSUME NEW all, NEW some \in SUBSET all, Quoted(all) = {}
  PROVE  Quoted(some) = {}
  BY DEF Quoted

\* The evidence of the results as they are.
LEMMA EvidenceFacts ==
  ASSUME codeResult \in CodeResults \union {Missing}, testResult \in TestResults,
         NEW e, e = Evidence(codeResult, testResult)
  PROVE  /\ e.code = codeResult.status /\ e.test = testResult.status
         /\ e.failedCommand <=> testResult.status = "failed" \/ Field("failedCommand", FALSE)
         /\ e.blocked <=> Field("refused", FALSE)
         /\ e.changed = AnsweredFor /\ e.deleted = Removed /\ e.patch = Field("patch", 0)
         /\ e.checkpoint <=> codeResult # Missing
         /\ e.code = "missing" <=> codeResult = Missing
         /\ e.test = "missing" <=> testResult = Missing
<1>1. e.test = "missing" <=> testResult = Missing
  BY DEF Evidence, TestResults, Missing
<1>2. CASE codeResult = Missing
  BY <1>1, <1>2 DEF Evidence, Part, Field, AnsweredFor, Removed, Missing
<1>3. CASE codeResult \in CodeResults
  <2>1. /\ DOMAIN codeResult = {"status", "refused", "failedCommand", "byExecutor", "changed", "deleted", "patch"}
        /\ codeResult.status # "missing"
    BY <1>3, VerdictAssumption
  <2>2. codeResult # Missing
    BY <2>1 DEF Missing
  <2> QED BY <1>1, <2>1, <2>2 DEF Evidence, Part, Field, AnsweredFor, Removed
<1> QED BY <1>2, <1>3

\* The rules a diff can break, of an evidence and a task.
Strays(e, t) == t.allowed # {} /\ e.changed \ t.allowed # {}
TooMany(e, t) == t.maxFiles # NoLimit /\ Cardinality(e.changed) > t.maxFiles
TooLong(e, t) == t.maxPatch # NoLimit /\ e.patch > t.maxPatch
Deletes(e, t) == ~t.mayDelete /\ e.deleted # {}
Failing(e, t) == {c \in t.criteria : Unmet(c, e)}

IsMessage(m, e, t) ==
  \/ Strays(e, t) /\ m = Message("unexpected", Quoted(e.changed \ t.allowed))
  \/ TooMany(e, t) /\ m = Message("files", {"diff"})
  \/ TooLong(e, t) /\ m = Message("patch", {"patch"})
  \/ Deletes(e, t) /\ m = Message("deletion", {"delet"} \union Quoted(e.deleted))
  \/ Unsafe(e) # {} /\ m = Message("unsafe", {"unsafe"} \union Quoted(Unsafe(e)))
  \/ \E c \in Failing(e, t) : m = Message("criterion", {"criteria"} \union c.words)

LEMMA MessageFacts ==
  ASSUME NEW e, NEW t, NEW m
  PROVE  m \in ConstraintFailures(e, t) <=> IsMessage(m, e, t)
  BY DEF ConstraintFailures, When, IsMessage, Strays, TooMany, TooLong, Deletes, Failing

\* There is a message exactly when a rule of a diff is broken.
LEMMA SomeMessage ==
  ASSUME NEW e, NEW t
  PROVE  ConstraintFailures(e, t) # {} <=>
           \/ Strays(e, t) \/ TooMany(e, t) \/ TooLong(e, t) \/ Deletes(e, t) \/ Unsafe(e) # {}
           \/ Failing(e, t) # {}
<1>1. ConstraintFailures(e, t) # {} <=> \E m : IsMessage(m, e, t)
  BY MessageFacts
<1>2. Failing(e, t) # {} <=> \E c : c \in Failing(e, t)
  OBVIOUS
<1> QED BY <1>1, <1>2, Zenon DEF IsMessage

\* Where names and criteria hold no telling word, a message has its rule's code.
LEMMA PlainMessages ==
  ASSUME NEW e, NEW t, Quoted(e.changed) = {}, Quoted(e.deleted) = {},
         \A c \in t.criteria : c.words = {}, NEW x
  PROVE  x \in {CodeOf(m) : m \in ConstraintFailures(e, t)} <=>
           \/ Strays(e, t) /\ x = "unexpected_files_changed"
           \/ TooMany(e, t) /\ x = "diff_too_large"
           \/ TooLong(e, t) /\ x = "patch_too_large"
           \/ Deletes(e, t) /\ x = "file_deleted"
           \/ Unsafe(e) # {} /\ x = "unsafe_file_touched"
           \/ Failing(e, t) # {} /\ x = "success_criteria_failed"
<1> DEFINE M == ConstraintFailures(e, t)
           Criterion == Message("criterion", {"criteria"})
<1>1. x \in {CodeOf(m) : m \in M} <=> \E m : m \in M /\ x = CodeOf(m)
  OBVIOUS
<1>2. /\ Quoted(e.changed \ t.allowed) = {} /\ Quoted(Unsafe(e)) = {}
      /\ \A c \in Failing(e, t) : c.words = {}
  BY QuotesNothing DEF Unsafe, Failing
<1>3. \A m : m \in M <=>
           \/ Strays(e, t) /\ m = Message("unexpected", {})
           \/ TooMany(e, t) /\ m = Message("files", {"diff"})
           \/ TooLong(e, t) /\ m = Message("patch", {"patch"})
           \/ Deletes(e, t) /\ m = Message("deletion", {"delet"})
           \/ Unsafe(e) # {} /\ m = Message("unsafe", {"unsafe"})
           \/ Failing(e, t) # {} /\ m = Criterion
  <2> SUFFICES ASSUME NEW m
               PROVE  m \in M <=>
                        \/ Strays(e, t) /\ m = Message("unexpected", {})
                        \/ TooMany(e, t) /\ m = Message("files", {"diff"})
                        \/ TooLong(e, t) /\ m = Message("patch", {"patch"})
                        \/ Deletes(e, t) /\ m = Message("deletion", {"delet"})
                        \/ Unsafe(e) # {} /\ m = Message("unsafe", {"unsafe"})
                        \/ Failing(e, t) # {} /\ m = Criterion
    OBVIOUS
  <2>1. {"delet"} \union {} = {"delet"} /\ {"unsafe"} \union {} = {"unsafe"} /\ {"criteria"} \union {} = {"criteria"}
    OBVIOUS
  <2>2. \A c \in Failing(e, t) : Message("criterion", {"criteria"} \union c.words) = Criterion
    BY <1>2, <2>1
  <2>3. (\E c \in Failing(e, t) : m = Message("criterion", {"criteria"} \union c.words))
          <=> Failing(e, t) # {} /\ m = Criterion
    <3> HIDE DEF Criterion
    <3> QED BY <2>2
  <2>4. /\ Message("unexpected", Quoted(e.changed \ t.allowed)) = Message("unexpected", {})
        /\ Message("deletion", {"delet"} \union Quoted(e.deleted)) = Message("deletion", {"delet"})
        /\ Message("unsafe", {"unsafe"} \union Quoted(Unsafe(e))) = Message("unsafe", {"unsafe"})
    BY <1>2, <2>1
  <2>5. m \in M <=> IsMessage(m, e, t)
    BY MessageFacts
  <2> HIDE DEF M, Criterion
  <2> QED BY <2>3, <2>4, <2>5, Zenon DEF IsMessage
<1>4. /\ CodeOf(Message("unexpected", {})) = "unexpected_files_changed"
      /\ CodeOf(Message("files", {"diff"})) = "diff_too_large"
      /\ CodeOf(Message("patch", {"patch"})) = "patch_too_large"
      /\ CodeOf(Message("deletion", {"delet"})) = "file_deleted"
      /\ CodeOf(Message("unsafe", {"unsafe"})) = "unsafe_file_touched"
      /\ CodeOf(Criterion) = "success_criteria_failed"
  BY DEF CodeOf, Message
<1> HIDE DEF M, Criterion
<1>5. (\E m : m \in M /\ x = CodeOf(m)) <=>
           \/ Strays(e, t) /\ x = "unexpected_files_changed"
           \/ TooMany(e, t) /\ x = "diff_too_large"
           \/ TooLong(e, t) /\ x = "patch_too_large"
           \/ Deletes(e, t) /\ x = "file_deleted"
           \/ Unsafe(e) # {} /\ x = "unsafe_file_touched"
           \/ Failing(e, t) # {} /\ x = "success_criteria_failed"
  BY <1>3, <1>4
<1> QED BY <1>1, <1>5 DEF M

\* The verdict that is written down is that of the results as they are.
VerdictInv ==
  /\ codeResult \in CodeResults \union {Missing} /\ testResult \in TestResults
  /\ verifiedTask \in VerificationTasks
  /\ codes # NotVerified => codes = FailureCodes(codeResult, testResult, verifiedTask)

\* What the documented rules say of the evidence.
LEMMA RulesOfEvidence ==
  ASSUME VerdictInv, NEW e, e = Evidence(codeResult, testResult), NEW x
  PROVE  x \in Broken <=>
           \/ e.code = "missing" /\ x \in {"missing_code_execution_result", "missing_checkpoint"}
           \/ e.code = "failed" /\ x = "code_execution_failed"
           \/ e.test = "missing" /\ x = "missing_test_result"
           \/ (e.test = "failed" \/ e.failedCommand) /\ x = "test_failed"
           \/ e.blocked /\ x = "operation_blocked"
           \/ Unsafe(e) # {} /\ x = "unsafe_file_touched"
           \/ e.deleted # {} /\ x = "file_deleted"
           \/ Strays(e, verifiedTask) /\ x = "unexpected_files_changed"
           \/ TooMany(e, verifiedTask) /\ x = "diff_too_large"
           \/ TooLong(e, verifiedTask) /\ x = "patch_too_large"
           \/ Failing(e, verifiedTask) # {} /\ x = "success_criteria_failed"
<1> DEFINE t == verifiedTask
<1>1. /\ e.code = codeResult.status /\ e.test = testResult.status
      /\ e.failedCommand <=> testResult.status = "failed" \/ Field("failedCommand", FALSE)
      /\ e.blocked <=> Field("refused", FALSE)
      /\ e.changed = AnsweredFor /\ e.deleted = Removed /\ e.patch = Field("patch", 0)
      /\ e.code = "missing" <=> codeResult = Missing
      /\ e.test = "missing" <=> testResult = Missing
  BY EvidenceFacts DEF VerdictInv
<1>2. Failing(e, t) # {} <=> \E c \in t.criteria : MissesOut(c)
  <2>1. \A c : Unmet(c, e) <=> MissesOut(c)
    BY <1>1 DEF Unmet, MissesOut
  <2> QED BY <2>1 DEF Failing
<1>3. Strays(e, t) <=> t.allowed # {} /\ ~(AnsweredFor \subseteq t.allowed)
  BY <1>1 DEF Strays
<1>4. Unsafe(e) = AnsweredFor \cap Sensitive
  BY <1>1 DEF Unsafe
<1> HIDE DEF t
<1> DEFINE W(c, v) == IF c THEN v ELSE {}
           A == W(codeResult = Missing, {"missing_code_execution_result", "missing_checkpoint"})
           B == W(codeResult.status = "failed", {"code_execution_failed"})
           C == W(testResult = Missing, {"missing_test_result"})
           D == W(testResult.status = "failed" \/ Field("failedCommand", FALSE), {"test_failed"})
           E == W(Field("refused", FALSE), {"operation_blocked"})
           F == W(AnsweredFor \cap Sensitive # {}, {"unsafe_file_touched"})
           G == W(Removed # {}, {"file_deleted"})
           H == W(t.allowed # {} /\ ~(AnsweredFor \subseteq t.allowed), {"unexpected_files_changed"})
           I == W(t.maxFiles # NoLimit /\ Cardinality(AnsweredFor) > t.maxFiles, {"diff_too_large"})
           J == W(t.maxPatch # NoLimit /\ Field("patch", 0) > t.maxPatch, {"patch_too_large"})
           K == W(\E c \in t.criteria : MissesOut(c), {"success_criteria_failed"})
<1>5. Broken = A \union B \union C \union D \union E \union F \union G \union H \union I \union J \union K
  BY DEF Broken, When, t
<1>6. x \in A <=> e.code = "missing" /\ x \in {"missing_code_execution_result", "missing_checkpoint"}
  BY <1>1
<1>7. x \in B <=> e.code = "failed" /\ x = "code_execution_failed"
  BY <1>1
<1>8. x \in C <=> e.test = "missing" /\ x = "missing_test_result"
  BY <1>1
<1>9. x \in D <=> (e.test = "failed" \/ e.failedCommand) /\ x = "test_failed"
  BY <1>1
<1>10. x \in E <=> e.blocked /\ x = "operation_blocked"
  BY <1>1
<1>11. x \in F <=> Unsafe(e) # {} /\ x = "unsafe_file_touched"
  BY <1>4
<1>12. x \in G <=> e.deleted # {} /\ x = "file_deleted"
  BY <1>1
<1>13. x \in H <=> Strays(e, t) /\ x = "unexpected_files_changed"
  BY <1>3
<1>14. x \in I <=> TooMany(e, t) /\ x = "diff_too_large"
  BY <1>1 DEF TooMany
<1>15. x \in J <=> TooLong(e, t) /\ x = "patch_too_large"
  BY <1>1 DEF TooLong
<1>16. x \in K <=> Failing(e, t) # {} /\ x = "success_criteria_failed"
  BY <1>2
<1> HIDE DEF A, B, C, D, E, F, G, H, I, J, K
<1> DEFINE OfTheResults ==
             \/ e.code = "missing" /\ x \in {"missing_code_execution_result", "missing_checkpoint"}
             \/ e.code = "failed" /\ x = "code_execution_failed"
             \/ e.test = "missing" /\ x = "missing_test_result"
             \/ (e.test = "failed" \/ e.failedCommand) /\ x = "test_failed"
             \/ e.blocked /\ x = "operation_blocked"
           OfTheFiles ==
             \/ Unsafe(e) # {} /\ x = "unsafe_file_touched"
             \/ e.deleted # {} /\ x = "file_deleted"
             \/ Strays(e, t) /\ x = "unexpected_files_changed"
           OfTheTask ==
             \/ TooMany(e, t) /\ x = "diff_too_large"
             \/ TooLong(e, t) /\ x = "patch_too_large"
             \/ Failing(e, t) # {} /\ x = "success_criteria_failed"
<1>17. OfTheResults <=> x \in A \/ x \in B \/ x \in C \/ x \in D \/ x \in E
  BY <1>6, <1>7, <1>8, <1>9, <1>10, Zenon
<1>18. OfTheFiles <=> x \in F \/ x \in G \/ x \in H
  BY <1>11, <1>12, <1>13, Zenon
<1>19. OfTheTask <=> x \in I \/ x \in J \/ x \in K
  BY <1>14, <1>15, <1>16, Zenon
<1>20. x \in Broken <=> \/ x \in A \/ x \in B \/ x \in C \/ x \in D \/ x \in E
                       \/ x \in F \/ x \in G \/ x \in H
                       \/ x \in I \/ x \in J \/ x \in K
  BY <1>5
<1> HIDE DEF OfTheResults, OfTheFiles, OfTheTask
<1>21. x \in Broken <=> OfTheResults \/ OfTheFiles \/ OfTheTask
  BY <1>17, <1>18, <1>19, <1>20, Zenon
<1> QED BY <1>21 DEF OfTheResults, OfTheFiles, OfTheTask, t

\* What the classifier says of the evidence and the messages.
LEMMA ClassifyFacts ==
  ASSUME NEW e, NEW messages, NEW x
  PROVE  x \in Classify(e, messages) <=>
           \/ e.code = "missing" /\ x = "missing_code_execution_result"
           \/ e.code = "failed" /\ x = "code_execution_failed"
           \/ e.test = "missing" /\ x = "missing_test_result"
           \/ (e.test = "failed" \/ e.failedCommand) /\ x = "test_failed"
           \/ e.blocked /\ x = "operation_blocked"
           \/ Unsafe(e) # {} /\ x = "unsafe_file_touched"
           \/ e.deleted # {} /\ x = "file_deleted"
           \/ ~e.checkpoint /\ x = "missing_checkpoint"
           \/ x \in {CodeOf(m) : m \in messages}
<1> DEFINE A == When(e.code = "missing", {"missing_code_execution_result"})
           B == When(e.code = "failed", {"code_execution_failed"})
           C == When(e.test = "missing", {"missing_test_result"})
           D == When(e.test = "failed" \/ e.failedCommand, {"test_failed"})
           E == When(e.blocked, {"operation_blocked"})
           F == When(Unsafe(e) # {}, {"unsafe_file_touched"})
           G == When(e.deleted # {}, {"file_deleted"})
           H == When(~e.checkpoint, {"missing_checkpoint"})
           K == {CodeOf(m) : m \in messages}
<1>1. Classify(e, messages) = A \union B \union C \union D \union E \union F \union G \union H \union K
  BY DEF Classify
<1>2. /\ x \in A <=> e.code = "missing" /\ x = "missing_code_execution_result"
      /\ x \in B <=> e.code = "failed" /\ x = "code_execution_failed"
      /\ x \in C <=> e.test = "missing" /\ x = "missing_test_result"
  BY DEF When
<1>3. x \in D <=> (e.test = "failed" \/ e.failedCommand) /\ x = "test_failed"
  BY DEF When
<1>4. x \in E <=> e.blocked /\ x = "operation_blocked"
  BY DEF When
<1>5. /\ x \in F <=> Unsafe(e) # {} /\ x = "unsafe_file_touched"
      /\ x \in G <=> e.deleted # {} /\ x = "file_deleted"
  BY DEF When
<1>6. x \in H <=> ~e.checkpoint /\ x = "missing_checkpoint"
  BY DEF When
<1> HIDE DEF A, B, C, D, E, F, G, H, K
<1>7. x \in Classify(e, messages) <=>
         x \in A \/ x \in B \/ x \in C \/ x \in D \/ x \in E \/ x \in F \/ x \in G \/ x \in H \/ x \in K
  BY <1>1
<1> QED BY <1>2, <1>3, <1>4, <1>5, <1>6, <1>7, Zenon DEF K

LEMMA CheckpointOfCode ==
  ASSUME VerdictInv, NEW e, e = Evidence(codeResult, testResult)
  PROVE  /\ ~e.checkpoint <=> e.code = "missing"
         /\ e.changed = AnsweredFor /\ e.deleted = Removed
  BY EvidenceFacts DEF VerdictInv

\* Where names and criteria tell nothing, the codes are the broken rules.
LEMMA CodesSafe == VerdictInv => CodesAreBroken
<1> SUFFICES ASSUME VerdictInv, codes # NotVerified, Quoted(AnsweredFor \union Removed) = {},
                    \A c \in verifiedTask.criteria : c.words = {}, NEW x
             PROVE  x \in FailureCodes(codeResult, testResult, verifiedTask) <=> x \in Broken
  <2>1. VerdictInv /\ codes # NotVerified => codes = FailureCodes(codeResult, testResult, verifiedTask)
    BY DEF VerdictInv
  <2> QED BY <2>1, SetExtensionality DEF CodesAreBroken
<1> DEFINE e == Evidence(codeResult, testResult)
           t == verifiedTask
<1>1. /\ ~e.checkpoint <=> e.code = "missing"
      /\ e.changed = AnsweredFor /\ e.deleted = Removed
  BY CheckpointOfCode
<1>2. Quoted(e.changed) = {} /\ Quoted(e.deleted) = {}
  BY <1>1, QuotesNothing
<1>3. FailureCodes(codeResult, testResult, t) = Classify(e, ConstraintFailures(e, t))
  BY DEF FailureCodes
<1>4. Deletes(e, t) => e.deleted # {}
  BY DEF Deletes
<1> QED BY <1>1, <1>2, <1>3, <1>4, ClassifyFacts, PlainMessages, RulesOfEvidence

\* Whatever the names, there is a code exactly when a rule is broken.
LEMMA FailsSafe == VerdictInv => FailsIffBroken
<1> SUFFICES ASSUME VerdictInv
             PROVE  (\E x : x \in FailureCodes(codeResult, testResult, verifiedTask)) <=> \E x : x \in Broken
  <2>1. VerdictInv /\ codes # NotVerified => codes = FailureCodes(codeResult, testResult, verifiedTask)
    BY DEF VerdictInv
  <2> QED BY <2>1 DEF FailsIffBroken
<1> DEFINE e == Evidence(codeResult, testResult)
           t == verifiedTask
           messages == ConstraintFailures(e, t)
<1>1. ~e.checkpoint <=> e.code = "missing"
  BY CheckpointOfCode
<1>2. FailureCodes(codeResult, testResult, t) = Classify(e, messages)
  BY DEF FailureCodes
<1>3. messages # {} <=>
           \/ Strays(e, t) \/ TooMany(e, t) \/ TooLong(e, t) \/ Deletes(e, t) \/ Unsafe(e) # {}
           \/ Failing(e, t) # {}
  BY SomeMessage
<1>4. messages # {} <=> \E x : x \in {CodeOf(m) : m \in messages}
  <2> HIDE DEF messages
  <2> QED OBVIOUS
<1>5. Deletes(e, t) => e.deleted # {}
  BY DEF Deletes
<1> DEFINE Result == \/ e.code = "missing" \/ e.code = "failed" \/ e.test = "missing"
                     \/ e.test = "failed" \/ e.failedCommand \/ e.blocked
                     \/ Unsafe(e) # {} \/ e.deleted # {}
<1>6. (\E x : x \in Classify(e, messages)) <=> Result \/ messages # {}
  <2>1. \A x : x \in Classify(e, messages) <=>
           \/ e.code = "missing" /\ x = "missing_code_execution_result"
           \/ e.code = "failed" /\ x = "code_execution_failed"
           \/ e.test = "missing" /\ x = "missing_test_result"
           \/ (e.test = "failed" \/ e.failedCommand) /\ x = "test_failed"
           \/ e.blocked /\ x = "operation_blocked"
           \/ Unsafe(e) # {} /\ x = "unsafe_file_touched"
           \/ e.deleted # {} /\ x = "file_deleted"
           \/ ~e.checkpoint /\ x = "missing_checkpoint"
           \/ x \in {CodeOf(m) : m \in messages}
    BY ClassifyFacts
  <2> HIDE DEF e, messages
  <2> QED BY <2>1, <1>1, <1>4, Zenon
<1>7. (\E x : x \in Broken) <=>
           \/ Result \/ Strays(e, t) \/ TooMany(e, t) \/ TooLong(e, t) \/ Failing(e, t) # {}
  <2>1. \A x : x \in Broken <=>
           \/ e.code = "missing" /\ x \in {"missing_code_execution_result", "missing_checkpoint"}
           \/ e.code = "failed" /\ x = "code_execution_failed"
           \/ e.test = "missing" /\ x = "missing_test_result"
           \/ (e.test = "failed" \/ e.failedCommand) /\ x = "test_failed"
           \/ e.blocked /\ x = "operation_blocked"
           \/ Unsafe(e) # {} /\ x = "unsafe_file_touched"
           \/ e.deleted # {} /\ x = "file_deleted"
           \/ Strays(e, t) /\ x = "unexpected_files_changed"
           \/ TooMany(e, t) /\ x = "diff_too_large"
           \/ TooLong(e, t) /\ x = "patch_too_large"
           \/ Failing(e, t) # {} /\ x = "success_criteria_failed"
    BY RulesOfEvidence
  <2> HIDE DEF e, t
  <2> QED BY <2>1, Zenon
<1> HIDE DEF e, t, messages
<1>8. Unsafe(e) # {} \/ e.deleted # {} => Result
  OBVIOUS
<1> HIDE DEF Result
<1> QED BY <1>2, <1>3, <1>5, <1>6, <1>7, <1>8 DEF t

\* For all names of files, results and coding tasks: verification fails exactly when a
\* documented rule is broken, and where neither the names of the files that changed nor the
\* criteria hold a telling word, its failure codes are the broken rules (ExecutionVerifier.verify,
\* FailureClassifier.classify).
THEOREM VerdictsHold == VerdictSpec => []VerdictsAreRight
<1>1. VerdictInit => VerdictInv
  BY DEF VerdictInit, VerdictInv
<1>2. VerdictInv /\ [VerifyResults]_verificationVars => VerdictInv'
  BY DEF VerdictInv, VerifyResults, verificationVars
<1>3. VerdictInv => VerdictsAreRight
  BY CodesSafe, FailsSafe DEF VerdictsAreRight
<1> QED BY <1>1, <1>2, <1>3, PTL DEF VerdictSpec
=============================================================================
