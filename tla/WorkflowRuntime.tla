--------------------------- MODULE WorkflowRuntime ---------------------------
(***************************************************************************)
(* One run of a workflow template (core/WorkflowRunner, WorkflowRuntime,   *)
(* WorkflowGraph, ConditionEvaluator, SubAgentDispatcher, LLMExecutor,     *)
(* TraceStore).                                                            *)
(*                                                                         *)
(* For each node of its path a run awaits three calls: the dispatcher      *)
(* opens an artifact directory, the executor computes an output, and the   *)
(* dispatcher completes the directory; the synchronous code after the last *)
(* updates the context, picks the next edge and appends the trace entry.   *)
(* Any of the calls may throw: the catch block then fails the dispatch and *)
(* ends the run, and throws itself when it cannot write.  TraceStore.save  *)
(* comes last.  One action is one awaited call with the code after it.     *)
(*                                                                         *)
(* Abstracted: an output is the one field of it that conditions test, or   *)
(* any value when none do; inputs, prompts, summaries and timestamps are   *)
(* left out.  A crash may stop a run in any state, so an invariant of the  *)
(* disk holds after a crash as well.                                       *)
(***************************************************************************)
EXTENDS Integers, Sequences

CONSTANTS
  N,              \* nodes are numbered 1..N in template order
  Start,
  Edges,          \* in template order: [from, to, when]
  MaxIterations,
  Key,            \* outputKey of each node
  Valid,          \* outputs the schema of each node accepts
  Llm,            \* nodes of type llm
  Null,           \* context value of a key nothing was written to
  MaxFaults       \* bound on the file system calls that fail

Nodes == 1..N
End == 0
Keys == {Key[n] : n \in Nodes}
Outputs == UNION {Valid[n] : n \in Nodes}
CallNone == "not called"

ASSUME GraphAssumption ==
  /\ N \in Nat /\ Start \in Nodes /\ MaxIterations \in Nat \ {0}
  /\ Key \in [Nodes -> Keys]
  /\ \A n \in Nodes : Null \notin Valid[n] /\ "error" \notin Valid[n]
  /\ Llm \subseteq Nodes
  /\ Len(Edges) \in Nat /\ DOMAIN Edges = 1..Len(Edges)
  /\ \A i \in DOMAIN Edges : Edges[i].from \in Nodes /\ Edges[i].to \in Nodes \union {End}
  /\ MaxFaults \in Nat

VARIABLES
  pc,         \* the awaited call, or how the run ended
  current,    \* currentNodeId
  output,     \* what the executor of the current node returned
  values,     \* context: the value under each output key
  iteration,  \* context.iteration
  history,    \* context.history
  trace,      \* context.trace
  records,    \* context.subAgentDispatches
  calls,      \* context.runtimeMetadata.llmCalls
  stop,       \* context.stopReason
  disk,       \* the artifact directory of each step
  saved,      \* which files TraceStore.save has written
  faults

vars == <<pc, current, output, values, iteration, history, trace, records, calls,
          stop, disk, saved, faults>>
context == <<values, iteration, history, trace, records, stop>>

Init ==
  /\ pc = "dispatch" /\ current = Start /\ output = Null
  /\ values = [k \in Keys |-> Null]
  /\ iteration = 0 /\ history = << >> /\ trace = << >> /\ records = << >> /\ calls = << >>
  /\ stop = "none" /\ disk = << >> /\ saved = {} /\ faults = 0

-----------------------------------------------------------------------------
(* Routing.                                                                *)

\* Faulty variant: a condition on a false value is read as a missing value.
HoldsTruthy(when, vals) ==
  CASE when.type = "always" -> TRUE
    [] when.type = "exists" -> vals[when.key] # Null
    [] when.type = "notExists" -> vals[when.key] = Null
    [] OTHER -> vals[when.key] \in when.in \ {"fail"}

\* ConditionEvaluator.evaluate; "equals" is "in" with one value.
Holds(when, vals) ==
  CASE when.type = "always" -> TRUE
    [] when.type = "exists" -> vals[when.key] # Null
    [] when.type = "notExists" -> vals[when.key] = Null
    [] OTHER -> vals[when.key] \in when.in

Outgoing(n) == {i \in DOMAIN Edges : Edges[i].from = n}
Matching(n, vals) == {i \in Outgoing(n) : Holds(Edges[i].when, vals)}

\* resolveNextNode throws when edges leave the node and none of them matches.
Unmatched(n, vals) == Outgoing(n) # {} /\ Matching(n, vals) = {}

NextNode(n, vals) ==
  IF Outgoing(n) = {} THEN End
  ELSE Edges[CHOOSE i \in Matching(n, vals) : \A j \in Matching(n, vals) : i <= j].to

\* Faulty variant: a node that follows itself is not counted.
IsBackEdgeStrict(from, to) == to # End /\ to < from

IsBackEdge(from, to) == to # End /\ to <= from

-----------------------------------------------------------------------------
(* Records.                                                                *)

Step == Len(trace) + 1
Fault == faults < MaxFaults /\ faults' = faults + 1

LastCall(n) ==
  LET ofNode == {i \in DOMAIN calls : calls[i].node = n} IN
    IF ofNode = {} THEN CallNone
    ELSE calls[CHOOSE i \in ofNode : \A j \in ofNode : j <= i].status

\* Faulty variant: the type of the node is taken for proof of a call.
BackedByType(n) == n \in Llm /\ LastCall(n) \in {CallNone, "completed", "failed"}

\* isLLMBacked of the dispatch that ends now: the node's latest call decides.
Backed(n) == n \in Llm /\ LastCall(n) = "completed"

Record(status) == [step |-> Step, node |-> current, status |-> status, backed |-> Backed(current)]
Directory(input, out, state, backed) ==
  [input |-> input, output |-> out, state |-> state, backed |-> backed]

\* What the catch block leaves, given whether it has a dispatch record.
StopWithError(dispatched) ==
  /\ trace' = Append(trace, [node |-> current, next |-> End, error |-> TRUE,
                             dispatched |-> dispatched,
                             backed |-> dispatched /\ Backed(current)])
  /\ stop' = "error"
  /\ records' = IF dispatched THEN Append(records, Record("failed")) ELSE records
  /\ pc' = "save"
  /\ UNCHANGED <<values, iteration, history>>

-----------------------------------------------------------------------------
Dispatch ==
  /\ pc = "dispatch"
  /\ disk' = Append(disk, Directory(TRUE, Null, "started", FALSE))
  /\ pc' = "execute"
  /\ UNCHANGED <<current, output, context, calls, saved, faults>>

\* No executor is registered, or a file of the directory cannot be written:
\* there is no handle, so the catch block has no dispatch to fail.
DispatchFails ==
  /\ pc = "dispatch"
  /\ Fault
  /\ \/ UNCHANGED disk
     \/ \E input \in BOOLEAN : disk' = Append(disk, Directory(input, Null, "none", FALSE))
  /\ StopWithError(FALSE)
  /\ UNCHANGED <<current, output, calls, saved>>

Called(status) ==
  calls' = IF current \in Llm
           THEN Append(calls, [step |-> Step, node |-> current, status |-> status])
           ELSE calls

Execute(value) ==
  /\ pc = "execute"
  /\ value \in Valid[current]
  /\ output' = value
  /\ Called("completed")
  /\ pc' = "complete"
  /\ UNCHANGED <<current, context, disk, saved, faults>>

\* The executor throws or its output is not valid; an llm node that cannot
\* even read its prompt leaves no call record.
ExecuteFails ==
  /\ pc = "execute"
  /\ \/ Called("failed") /\ UNCHANGED faults
     \/ current \in Llm /\ Fault /\ UNCHANGED calls
  /\ pc' = "fail"
  /\ UNCHANGED <<current, output, context, disk, saved>>

\* Faulty variant: one back edge too many.
AdvanceLate(vals) ==
  LET resolved == NextNode(current, vals)
      count == iteration + (IF IsBackEdge(current, resolved) THEN 1 ELSE 0)
      stopped == count > MaxIterations /\ resolved # End
      next == IF stopped THEN End ELSE resolved IN
    /\ iteration' = count
    /\ stop' = IF stopped THEN "maxIterations" ELSE stop
    /\ trace' = Append(trace, [node |-> current, next |-> next, error |-> FALSE,
                               dispatched |-> TRUE, backed |-> Backed(current)])
    /\ current' = next
    /\ pc' = IF next = End THEN "save" ELSE "dispatch"

\* Faulty variant: the trace keeps the edge that the iteration limit overrode.
AdvanceMislabelled(vals) ==
  LET resolved == NextNode(current, vals)
      count == iteration + (IF IsBackEdge(current, resolved) THEN 1 ELSE 0)
      stopped == count >= MaxIterations /\ resolved # End
      next == IF stopped THEN End ELSE resolved IN
    /\ iteration' = count
    /\ stop' = IF stopped THEN "maxIterations" ELSE stop
    /\ trace' = Append(trace, [node |-> current, next |-> resolved, error |-> FALSE,
                               dispatched |-> TRUE, backed |-> Backed(current)])
    /\ current' = next
    /\ pc' = IF next = End THEN "save" ELSE "dispatch"

\* The output enters the context, and the run goes on along the first edge
\* that matches, unless a back edge has used up the iterations.
Advance(vals) ==
  LET resolved == NextNode(current, vals)
      count == iteration + (IF IsBackEdge(current, resolved) THEN 1 ELSE 0)
      stopped == count >= MaxIterations /\ resolved # End
      next == IF stopped THEN End ELSE resolved IN
    /\ iteration' = count
    /\ stop' = IF stopped THEN "maxIterations" ELSE stop
    /\ trace' = Append(trace, [node |-> current, next |-> next, error |-> FALSE,
                               dispatched |-> TRUE, backed |-> Backed(current)])
    /\ current' = next
    /\ pc' = IF next = End THEN "save" ELSE "dispatch"

\* Faulty variant: the next edge is chosen on the context before the output.
CompleteStale ==
  /\ pc = "complete"
  /\ disk' = [disk EXCEPT ![Len(disk)] = Directory(TRUE, output, "completed", Backed(current))]
  /\ values' = [values EXCEPT ![Key[current]] = output]
  /\ records' = Append(records, Record("completed"))
  /\ history' = Append(history, [node |-> current, output |-> output, step |-> Step])
  /\ \/ ~Unmatched(current, values) /\ Advance(values)
     \/ /\ Unmatched(current, values)
        /\ pc' = "fail"
        /\ UNCHANGED <<current, iteration, trace, stop>>
  /\ UNCHANGED <<output, calls, saved, faults>>

Complete ==
  /\ pc = "complete"
  /\ disk' = [disk EXCEPT ![Len(disk)] = Directory(TRUE, output, "completed", Backed(current))]
  /\ values' = [values EXCEPT ![Key[current]] = output]
  /\ records' = Append(records, Record("completed"))
  /\ history' = Append(history, [node |-> current, output |-> output, step |-> Step])
  /\ \/ ~Unmatched(current, values') /\ Advance(values')
     \/ /\ Unmatched(current, values')
        /\ pc' = "fail"
        /\ UNCHANGED <<current, iteration, trace, stop>>
  /\ UNCHANGED <<output, calls, saved, faults>>

\* Faulty variant: the dispatch is recorded before its files are written.
CompleteFailsRecorded ==
  /\ pc = "complete"
  /\ Fault
  /\ \E out \in {Null, output} : disk' = [disk EXCEPT ![Len(disk)].output = out]
  /\ records' = Append(records, Record("completed"))
  /\ pc' = "fail"
  /\ UNCHANGED <<current, output, values, iteration, history, trace, stop, calls, saved>>

CompleteFails ==
  /\ pc = "complete"
  /\ Fault
  /\ \E out \in {Null, output} : disk' = [disk EXCEPT ![Len(disk)].output = out]
  /\ pc' = "fail"
  /\ UNCHANGED <<current, output, context, calls, saved>>

\* Faulty variant: the artifacts of a failed dispatch are left as they are.
FailUnwritten ==
  /\ pc = "fail"
  /\ StopWithError(TRUE)
  /\ UNCHANGED <<current, output, calls, disk, saved, faults>>

\* Faulty variant: a node that fails is executed again.
FailRetried ==
  /\ pc = "fail"
  /\ disk' = [disk EXCEPT ![Len(disk)] = Directory(TRUE, "error", "failed", Backed(current))]
  /\ pc' = "execute"
  /\ UNCHANGED <<current, output, context, calls, saved, faults>>

Fail ==
  /\ pc = "fail"
  /\ disk' = [disk EXCEPT ![Len(disk)] = Directory(TRUE, "error", "failed", Backed(current))]
  /\ StopWithError(TRUE)
  /\ UNCHANGED <<current, output, calls, saved, faults>>

\* The catch block throws: run() rejects and nothing is saved.
FailFails ==
  /\ pc = "fail"
  /\ Fault
  /\ \E out \in {disk[Len(disk)].output, "error"} : disk' = [disk EXCEPT ![Len(disk)].output = out]
  /\ pc' = "rejected"
  /\ UNCHANGED <<current, output, context, calls, saved>>

Save ==
  /\ pc = "save"
  /\ saved' = {"trace", "context", "summary"}
  /\ pc' = "returned"
  /\ UNCHANGED <<current, output, context, calls, disk, faults>>

SaveFails ==
  /\ pc = "save"
  /\ Fault
  /\ \E files \in {{}, {"trace"}, {"trace", "context"}} : saved' = files
  /\ pc' = "rejected"
  /\ UNCHANGED <<current, output, context, calls, disk>>

Next ==
  \/ Dispatch \/ DispatchFails
  \/ \E value \in Outputs : Execute(value)
  \/ ExecuteFails
  \/ Complete \/ CompleteFails
  \/ Fail \/ FailFails
  \/ Save \/ SaveFails

Spec == Init /\ [][Next]_vars

\* Every awaited call answers: file system calls do, executors run under
\* timeouts of their own (LLM requests and commands are aborted).
FairSpec == Spec /\ WF_vars(Next)
-----------------------------------------------------------------------------
(* Properties.                                                             *)

Running == {"dispatch", "execute", "complete", "fail"}

TraceEntry == [node : Nodes, next : Nodes \union {End}, error : BOOLEAN,
               dispatched : BOOLEAN, backed : BOOLEAN]
Artifacts == [input : BOOLEAN, output : Outputs \union {Null, "error"},
              state : {"none", "started", "completed", "failed"}, backed : BOOLEAN]

HistoryEntry == [node : Nodes, output : Outputs, step : Nat]
DispatchRecord == [step : Nat, node : Nodes, status : {"completed", "failed"}, backed : BOOLEAN]
CallRecord == [step : Nat, node : Nodes, status : {"completed", "failed"}]

TypeOK ==
  /\ pc \in Running \union {"save", "returned", "rejected"}
  /\ current \in IF pc \in Running THEN Nodes ELSE Nodes \union {End}
  /\ output \in Outputs \union {Null}
  /\ pc = "complete" => output \in Outputs
  /\ values \in [Keys -> Outputs \union {Null}]
  /\ iteration \in 0..MaxIterations
  /\ history \in Seq(HistoryEntry)
  /\ trace \in Seq(TraceEntry)
  /\ records \in Seq(DispatchRecord)
  /\ calls \in Seq(CallRecord)
  /\ stop \in {"none", "error", "maxIterations"}
  /\ disk \in Seq(Artifacts)
  /\ saved \subseteq {"trace", "context", "summary"}
  /\ faults \in Nat

\* maxIterations prevents infinite loops: only a back edge leads to a node at
\* or before the current one, and each spends an iteration, so a run takes at
\* most as many steps as there are nodes, per iteration.
BoundedRun == Len(trace) <= MaxIterations * N

\* The trace is a path: it starts at the start node, each entry names the node
\* of the next one, and the run is where its last entry says.
TraceIsPath ==
  /\ trace # << >> => trace[1].node = Start
  /\ \A i \in DOMAIN trace : i > 1 => trace[i].node = trace[i - 1].next
  /\ stop # "error" => current = IF trace = << >> THEN Start ELSE trace[Len(trace)].next

\* Every run, whatever its executors answer and wherever it fails, walks a path of
\* bounded length.
PathIsBounded == BoundedRun /\ TraceIsPath

\* WorkflowRuntime is deterministic: the outputs in the history alone explain
\* every edge taken, and maxIterations ends a run only in place of a back edge.
ValuesAfter(i) ==
  [k \in Keys |->
     LET writers == {j \in DOMAIN history : j <= i /\ Key[history[j].node] = k} IN
       IF writers = {} THEN Null
       ELSE history[CHOOSE j \in writers : \A l \in writers : l <= j].output]

RoutesExplained ==
  \A i \in DOMAIN trace : ~trace[i].error =>
    /\ i \in DOMAIN history /\ history[i].node = trace[i].node
    /\ LET resolved == NextNode(trace[i].node, ValuesAfter(i)) IN
         \/ trace[i].next = resolved
         \/ /\ i = Len(trace) /\ stop = "maxIterations" /\ iteration = MaxIterations
            /\ trace[i].next = End /\ IsBackEdge(trace[i].node, resolved)

\* A trace entry that claims a dispatch is backed by the artifacts on disk: the
\* output the history holds, or the error, and the same LLM evidence; an entry
\* without a dispatch is the error that ended the run.
ArtifactsProveTrace ==
  \A i \in DOMAIN trace :
    IF trace[i].dispatched
    THEN disk[i] = IF trace[i].error
                   THEN Directory(TRUE, "error", "failed", trace[i].backed)
                   ELSE Directory(TRUE, history[i].output, "completed", trace[i].backed)
    ELSE trace[i].error /\ i = Len(trace)

\* A run is never more than one step ahead of its trace: each step has its
\* directory and its history entry, only a running step may have a directory (or,
\* when no edge matched, an output) the trace does not show yet, and what has
\* been spent of the bound is counted.  (With the above, the inductive invariant.)
StepsAligned ==
  /\ \A i \in DOMAIN trace : /\ trace[i].dispatched => i <= Len(disk)
                             /\ ~trace[i].error => i <= Len(history)
  /\ pc \in Running =>
       /\ stop = "none"
       /\ iteration < MaxIterations
       /\ Len(trace) <= iteration * N + current - 1
       /\ \A i \in DOMAIN trace : trace[i].dispatched /\ ~trace[i].error
       /\ Len(disk) = Len(trace) + (IF pc = "dispatch" THEN 0 ELSE 1)
       /\ \/ Len(history) = Len(trace)
          \/ pc = "fail" /\ Len(history) = Len(trace) + 1

\* No LLM call record, no LLM-backed agent: a dispatch claims an LLM only if a
\* call of its node completed, and for a completed dispatch a call of its own.
BackedByCall ==
  \A i \in DOMAIN records : records[i].backed =>
    \E j \in DOMAIN calls :
      /\ calls[j].node = records[i].node /\ calls[j].status = "completed"
      /\ IF records[i].status = "completed" THEN calls[j].step = records[i].step
                                            ELSE calls[j].step <= records[i].step

\* A dispatch that completed is failed afterwards only where no edge of its node
\* matches the values its output left, and that ends the trace.
OneRecordPerDispatch ==
  \A i, j \in DOMAIN records : i < j /\ records[i].step = records[j].step =>
    /\ records[i].status = "completed" /\ records[j].status = "failed" /\ j = Len(records)
    /\ Unmatched(records[i].node, ValuesAfter(records[i].step))

\* What the dispatch records tell: each is the only one of its step but for the case
\* above, and one that claims an LLM has a call behind it.
DispatchesExplained == OneRecordPerDispatch /\ BackedByCall

\* Every run ends: it returns its saved context or rejects.
Terminates == <>(pc \in {"returned", "rejected"})
=============================================================================
