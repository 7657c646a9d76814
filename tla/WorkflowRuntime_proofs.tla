----------------------- MODULE WorkflowRuntime_proofs -----------------------
(***************************************************************************)
(* Proofs about WorkflowRuntime, for every template, every iteration limit *)
(* and every number of faults.                                             *)
(***************************************************************************)
EXTENDS WorkflowRuntime, NaturalOrder, SequenceTheorems, TLAPS

\* An iteration of the budget is worth N steps.
LEMMA Budget ==
  ASSUME NEW i \in Nat, NEW m \in Nat, NEW n \in Nat, i < m
  PROVE  /\ i * n \in Nat /\ m * n \in Nat
         /\ (i + 1) * n = i * n + n
         /\ i * n + n <= m * n
<1>1. i * n \in Nat /\ m * n \in Nat /\ (i + 1) * n = i * n + n
  OBVIOUS
<1>2. PICK d \in Nat : m = (i + 1) + d
  <2>1. m - (i + 1) \in Nat /\ m = (i + 1) + (m - (i + 1))
    OBVIOUS
  <2> QED BY <2>1
<1>3. m * n = (i + 1) * n + d * n /\ d * n \in Nat
  BY <1>2
<1> QED BY <1>1, <1>3

\* An edge that matches leads to a node of the template or to the end.
LEMMA NextNodeType ==
  ASSUME NEW n \in Nodes, NEW vals, ~Unmatched(n, vals)
  PROVE  NextNode(n, vals) \in Nodes \union {End}
<1>1. CASE Outgoing(n) = {}
  BY <1>1 DEF NextNode
<1>2. CASE Outgoing(n) # {}
  <2>1. Matching(n, vals) # {}
    BY <1>2 DEF Unmatched
  <2>2. Matching(n, vals) \in SUBSET Nat /\ Matching(n, vals) \subseteq DOMAIN Edges
    BY GraphAssumption DEF Matching, Outgoing
  <2>3. \E i \in Matching(n, vals) : \A j \in Matching(n, vals) : i <= j
    BY <2>1, <2>2, LeastNatural
  <2> DEFINE first == CHOOSE i \in Matching(n, vals) : \A j \in Matching(n, vals) : i <= j
  <2>4. first \in Matching(n, vals)
    BY <2>3
  <2>5. Edges[first].to \in Nodes \union {End}
    BY <2>2, <2>4, GraphAssumption
  <2> QED BY <1>2, <2>5 DEF NextNode
<1> QED BY <1>1, <1>2

LEMMA BackedType == \A n : Backed(n) \in BOOLEAN
  BY DEF Backed

-----------------------------------------------------------------------------
(* The type invariant.                                                     *)

LEMMA InitTyping == Init => TypeOK
  BY GraphAssumption DEF Init, TypeOK, Running, Nodes, TraceEntry, Artifacts

\* What the type invariant says of a run that has not ended, and what the
\* alignment adds: there is a directory for the step in progress.
LEMMA RunningFacts ==
  ASSUME TypeOK, StepsAligned, pc \in Running
  PROVE  /\ current \in Nodes /\ N \in Nat /\ Len(trace) \in Nat
         /\ iteration \in Nat /\ MaxIterations \in Nat /\ iteration < MaxIterations
         /\ pc # "dispatch" => Len(disk) \in DOMAIN disk /\ Len(disk) = Len(trace) + 1
  BY GraphAssumption DEF TypeOK, StepsAligned, Running, Nodes

\* The parts of the state that the end of a run by an error leaves well typed.
LEMMA StopTyping ==
  ASSUME TypeOK, StepsAligned, pc \in Running, NEW d \in BOOLEAN, StopWithError(d)
  PROVE  /\ pc' = "save" /\ stop' = "error"
         /\ values' \in [Keys -> Outputs \union {Null}]
         /\ iteration' \in 0..MaxIterations
         /\ history' \in Seq(HistoryEntry)
         /\ trace' \in Seq(TraceEntry)
         /\ records' \in Seq(DispatchRecord)
<1>1. current \in Nodes /\ Step \in Nat /\ Backed(current) \in BOOLEAN
  BY RunningFacts, BackedType DEF Step
<1>2. trace' \in Seq(TraceEntry)
  BY <1>1 DEF StopWithError, TypeOK, TraceEntry
<1>3. records' \in Seq(DispatchRecord)
  <2>1. Record("failed") \in DispatchRecord
    BY <1>1 DEF Record, DispatchRecord
  <2>2. records' = Append(records, Record("failed")) \/ records' = records
    BY DEF StopWithError
  <2>3. records \in Seq(DispatchRecord)
    BY DEF TypeOK
  <2> QED BY <2>1, <2>2, <2>3, AppendProperties
<1> QED BY <1>2, <1>3 DEF StopWithError, TypeOK

LEMMA AdvanceTyping ==
  ASSUME TypeOK, StepsAligned, pc \in Running, NEW vals, ~Unmatched(current, vals), Advance(vals)
  PROVE  /\ pc' \in {"save", "dispatch"}
         /\ current' \in Nodes \union {End} /\ (pc' = "dispatch" => current' \in Nodes)
         /\ iteration' \in 0..MaxIterations
         /\ stop' \in {"none", "error", "maxIterations"}
         /\ trace' \in Seq(TraceEntry)
<1> DEFINE resolved == NextNode(current, vals)
           count == iteration + (IF IsBackEdge(current, resolved) THEN 1 ELSE 0)
           stopped == count >= MaxIterations /\ resolved # End
           next == IF stopped THEN End ELSE resolved
<1>1. current \in Nodes /\ Backed(current) \in BOOLEAN
  BY RunningFacts, BackedType
<1>2. resolved \in Nodes \union {End} /\ next \in Nodes \union {End}
  BY <1>1, NextNodeType
<1>3. count \in 0..MaxIterations
  BY RunningFacts
<1>4. trace' = Append(trace, [node |-> current, next |-> next, error |-> FALSE,
                              dispatched |-> TRUE, backed |-> Backed(current)])
  BY DEF Advance
<1>5. [node |-> current, next |-> next, error |-> FALSE, dispatched |-> TRUE,
       backed |-> Backed(current)] \in TraceEntry
  BY <1>1, <1>2 DEF TraceEntry
<1>6. trace' \in Seq(TraceEntry)
  BY <1>4, <1>5 DEF TypeOK
<1>7. /\ iteration' = count /\ current' = next
      /\ stop' = IF stopped THEN "maxIterations" ELSE stop
      /\ pc' = IF next = End THEN "save" ELSE "dispatch"
  BY DEF Advance
<1> HIDE DEF resolved, count, stopped, next
<1> QED BY <1>2, <1>3, <1>6, <1>7 DEF TypeOK

LEMMA TypingStep ==
  ASSUME TypeOK, StepsAligned, [Next]_vars
  PROVE  TypeOK'
<1> USE DEF context
<1>a. /\ disk \in Seq(Artifacts) /\ calls \in Seq(CallRecord)
      /\ records \in Seq(DispatchRecord) /\ history \in Seq(HistoryEntry)
  BY DEF TypeOK
<1>1. CASE Dispatch
  <2>1. Directory(TRUE, Null, "started", FALSE) \in Artifacts
    BY DEF Directory, Artifacts
  <2>2. disk' \in Seq(Artifacts)
    BY <1>a, <1>1, <2>1, AppendProperties DEF Dispatch
  <2> QED BY <1>1, <2>2 DEF Dispatch, TypeOK, Running
<1>2. CASE DispatchFails
  <2>1. StopWithError(FALSE) /\ pc = "dispatch"
    BY <1>2 DEF DispatchFails
  <2>2. ASSUME NEW input \in BOOLEAN PROVE Directory(input, Null, "none", FALSE) \in Artifacts
    BY DEF Directory, Artifacts
  <2>3. disk' \in Seq(Artifacts)
    <3>1. CASE UNCHANGED disk
      BY <1>a, <3>1
    <3>2. ASSUME NEW input \in BOOLEAN,
                 disk' = Append(disk, Directory(input, Null, "none", FALSE))
          PROVE  disk' \in Seq(Artifacts)
      BY <1>a, <2>2, <3>2, AppendProperties
    <3> QED BY <1>2, <3>1, <3>2 DEF DispatchFails
  <2>4. faults' \in Nat
    BY <1>2 DEF DispatchFails, Fault, TypeOK
  <2>5. UNCHANGED <<current, output, calls, saved>>
    BY <1>2 DEF DispatchFails
  <2> QED BY <2>1, <2>3, <2>4, <2>5, StopTyping DEF TypeOK, Running
<1>3. ASSUME NEW value \in Outputs, Execute(value) PROVE TypeOK'
  <2>0. Called("completed") \/ UNCHANGED calls
    BY <1>3 DEF Execute
  <2>1. calls' \in Seq(CallRecord)
    <3>1. current \in Nodes /\ Step \in Nat
      BY <1>3, RunningFacts DEF Execute, Running, Step
    <3> DEFINE call == [step |-> Step, node |-> current, status |-> "completed"]
    <3>2. call \in CallRecord
      BY <3>1 DEF CallRecord
    <3>3. calls' = Append(calls, call) \/ calls' = calls
      BY <2>0 DEF Called
    <3> HIDE DEF call
    <3>4. Append(calls, call) \in Seq(CallRecord)
      BY <1>a, <3>2
    <3> QED BY <1>a, <3>3, <3>4
  <2> QED BY <1>3, <2>1 DEF Execute, TypeOK, Running
<1>4. CASE ExecuteFails
  <2>0. Called("failed") \/ UNCHANGED calls
    BY <1>4 DEF ExecuteFails
  <2>1. calls' \in Seq(CallRecord)
    <3>1. current \in Nodes /\ Step \in Nat
      BY <1>4, RunningFacts DEF ExecuteFails, Running, Step
    <3> DEFINE call == [step |-> Step, node |-> current, status |-> "failed"]
    <3>2. call \in CallRecord
      BY <3>1 DEF CallRecord
    <3>3. calls' = Append(calls, call) \/ calls' = calls
      BY <2>0 DEF Called
    <3> HIDE DEF call
    <3>4. Append(calls, call) \in Seq(CallRecord)
      BY <1>a, <3>2
    <3> QED BY <1>a, <3>3, <3>4
  <2>2. faults' \in Nat
    BY <1>4 DEF ExecuteFails, Fault, TypeOK
  <2> QED BY <1>4, <2>1, <2>2 DEF ExecuteFails, TypeOK, Running
<1>5. CASE Complete
  <2>1. pc = "complete" /\ pc \in Running /\ output \in Outputs
    BY <1>5 DEF Complete, Running, TypeOK
  <2>2. current \in Nodes /\ Step \in Nat /\ Backed(current) \in BOOLEAN
    BY <2>1, RunningFacts, BackedType DEF Step
  <2>3. disk' \in Seq(Artifacts)
    <3>1. Directory(TRUE, output, "completed", Backed(current)) \in Artifacts
      BY <2>1, <2>2 DEF Directory, Artifacts
    <3>2. Len(disk) \in 1..Len(disk)
      BY <1>a, <2>1, RunningFacts
    <3> QED BY <1>a, <1>5, <3>1, <3>2, ExceptSeq DEF Complete
  <2>4. values' \in [Keys -> Outputs \union {Null}]
    BY <1>5, <2>1 DEF Complete, TypeOK
  <2>5. records' \in Seq(DispatchRecord)
    <3>1. Record("completed") \in DispatchRecord
      BY <2>2 DEF Record, DispatchRecord
    <3>2. records' = Append(records, Record("completed"))
      BY <1>5 DEF Complete
    <3> QED BY <1>a, <3>1, <3>2, AppendProperties
  <2>6. history' \in Seq(HistoryEntry)
    <3>1. [node |-> current, output |-> output, step |-> Step] \in HistoryEntry
      BY <2>1, <2>2 DEF HistoryEntry
    <3>2. history' = Append(history, [node |-> current, output |-> output, step |-> Step])
      BY <1>5 DEF Complete
    <3> QED BY <1>a, <3>1, <3>2, AppendProperties
  <2>7. UNCHANGED <<output, calls, saved, faults>>
    BY <1>5 DEF Complete
  <2>8. CASE ~Unmatched(current, values') /\ Advance(values')
    <3>1. /\ pc' \in {"save", "dispatch"}
          /\ current' \in Nodes \union {End} /\ (pc' = "dispatch" => current' \in Nodes)
          /\ iteration' \in 0..MaxIterations
          /\ stop' \in {"none", "error", "maxIterations"}
          /\ trace' \in Seq(TraceEntry)
      BY <2>1, <2>8, AdvanceTyping
    <3> QED BY <3>1, <2>1, <2>3, <2>4, <2>5, <2>6, <2>7 DEF TypeOK, Running
  <2>9. CASE pc' = "fail" /\ UNCHANGED <<current, iteration, trace, stop>>
    BY <2>1, <2>3, <2>4, <2>5, <2>6, <2>7, <2>9 DEF TypeOK, Running
  <2> QED BY <1>5, <2>8, <2>9 DEF Complete
<1>6. CASE CompleteFails
  <2>1. disk' \in Seq(Artifacts)
    <3>1. PICK out \in {Null, output} : disk' = [disk EXCEPT ![Len(disk)].output = out]
      BY <1>6 DEF CompleteFails
    <3>2. Len(disk) \in 1..Len(disk) /\ disk[Len(disk)] \in Artifacts
      BY <1>a, <1>6, RunningFacts DEF CompleteFails, Running
    <3>3. out \in Outputs \union {Null}
      BY <3>1 DEF TypeOK
    <3>4. [disk[Len(disk)] EXCEPT !.output = out] \in Artifacts
      BY <3>2, <3>3 DEF Artifacts
    <3> QED BY <1>a, <3>1, <3>2, <3>4, ExceptSeq
  <2>2. faults' \in Nat
    BY <1>6 DEF CompleteFails, Fault, TypeOK
  <2> QED BY <1>6, <2>1, <2>2 DEF CompleteFails, TypeOK, Running
<1>7. CASE Fail
  <2>1. StopWithError(TRUE) /\ pc = "fail"
    BY <1>7 DEF Fail
  <2>2. Directory(TRUE, "error", "failed", Backed(current)) \in Artifacts
    BY BackedType DEF Directory, Artifacts
  <2>3. disk' \in Seq(Artifacts)
    <3>1. Len(disk) \in 1..Len(disk)
      BY <1>a, <2>1, RunningFacts DEF Running
    <3> QED BY <1>a, <1>7, <2>2, <3>1, ExceptSeq DEF Fail
  <2>4. UNCHANGED <<current, output, calls, saved, faults>>
    BY <1>7 DEF Fail
  <2> QED BY <2>1, <2>3, <2>4, StopTyping DEF TypeOK, Running
<1>8. CASE FailFails
  <2>1. disk' \in Seq(Artifacts)
    <3>1. PICK out \in {disk[Len(disk)].output, "error"} :
            disk' = [disk EXCEPT ![Len(disk)].output = out]
      BY <1>8 DEF FailFails
    <3>2. Len(disk) \in 1..Len(disk) /\ disk[Len(disk)] \in Artifacts
      BY <1>a, <1>8, RunningFacts DEF FailFails, Running
    <3>3. [disk[Len(disk)] EXCEPT !.output = out] \in Artifacts
      BY <3>1, <3>2 DEF Artifacts
    <3> QED BY <1>a, <3>1, <3>2, <3>3, ExceptSeq
  <2>2. faults' \in Nat
    BY <1>8 DEF FailFails, Fault, TypeOK
  <2> QED BY <1>8, <2>1, <2>2 DEF FailFails, TypeOK, Running
<1>9. CASE Save
  BY <1>9 DEF Save, TypeOK, Running
<1>10. CASE SaveFails
  BY <1>10 DEF SaveFails, Fault, TypeOK, Running
<1>11. CASE UNCHANGED vars
  BY <1>11 DEF vars, TypeOK, Running
<1> QED BY <1>1, <1>2, <1>3, <1>4, <1>5, <1>6, <1>7, <1>8, <1>9, <1>10, <1>11 DEF Next

-----------------------------------------------------------------------------
(* What the two ways to extend the trace append to it.                     *)

LEMMA StopEntry ==
  ASSUME TypeOK, StepsAligned, pc \in Running, NEW d \in BOOLEAN, StopWithError(d)
  PROVE  /\ Len(trace') = Len(trace) + 1
         /\ \A i \in 1..Len(trace) : trace'[i] = trace[i]
         /\ trace'[Len(trace) + 1] =
              [node |-> current, next |-> End, error |-> TRUE, dispatched |-> d,
               backed |-> d /\ Backed(current)]
         /\ trace'[Len(trace) + 1].node = current
         /\ trace'[Len(trace) + 1].error
         /\ trace'[Len(trace) + 1].dispatched <=> d
<1> DEFINE entry == [node |-> current, next |-> End, error |-> TRUE, dispatched |-> d,
                     backed |-> d /\ Backed(current)]
<1>1. entry \in TraceEntry
  BY RunningFacts, BackedType DEF TraceEntry
<1>2. trace' = Append(trace, entry) /\ trace \in Seq(TraceEntry)
  BY DEF StopWithError, TypeOK
<1>4. entry.node = current /\ entry.error /\ (entry.dispatched <=> d)
  OBVIOUS
<1> HIDE DEF entry
<1>3. /\ Len(trace') = Len(trace) + 1
      /\ \A i \in 1..Len(trace) : trace'[i] = trace[i]
      /\ trace'[Len(trace) + 1] = entry
  BY <1>1, <1>2, AppendProperties
<1> QED BY <1>3, <1>4 DEF entry

LEMMA AdvanceEntry ==
  ASSUME TypeOK, StepsAligned, pc \in Running, NEW vals, ~Unmatched(current, vals), Advance(vals)
  PROVE  /\ Len(trace') = Len(trace) + 1
         /\ \A i \in 1..Len(trace) : trace'[i] = trace[i]
         /\ trace'[Len(trace) + 1] =
              [node |-> current, next |-> current', error |-> FALSE, dispatched |-> TRUE,
               backed |-> Backed(current)]
<1> DEFINE entry == [node |-> current, next |-> current', error |-> FALSE, dispatched |-> TRUE,
                     backed |-> Backed(current)]
<1>1. current' \in Nodes \union {End}
  BY AdvanceTyping
<1>2. entry \in TraceEntry
  BY <1>1, RunningFacts, BackedType DEF TraceEntry
<1>3. trace' = Append(trace, entry) /\ trace \in Seq(TraceEntry)
  BY DEF Advance, TypeOK
<1> HIDE DEF entry
<1>4. /\ Len(trace') = Len(trace) + 1
      /\ \A i \in 1..Len(trace) : trace'[i] = trace[i]
      /\ trace'[Len(trace) + 1] = entry
  BY <1>2, <1>3, AppendProperties
<1> QED BY <1>4 DEF entry

\* An advance keeps within the budget: a forward edge uses the steps that the
\* higher node leaves, a back edge uses an iteration, which is worth N steps.
LEMMA AdvanceBudget ==
  ASSUME TypeOK, StepsAligned, pc \in Running, NEW vals, ~Unmatched(current, vals), Advance(vals)
  PROVE  pc' \in Running =>
           /\ stop' = "none"
           /\ iteration' < MaxIterations
           /\ Len(trace') <= iteration' * N + current' - 1
<1> DEFINE resolved == NextNode(current, vals)
           count == iteration + (IF IsBackEdge(current, resolved) THEN 1 ELSE 0)
           stopped == count >= MaxIterations /\ resolved # End
           next == IF stopped THEN End ELSE resolved
<1> SUFFICES ASSUME pc' \in Running
             PROVE  /\ stop' = "none"
                    /\ iteration' < MaxIterations
                    /\ Len(trace') <= iteration' * N + current' - 1
  OBVIOUS
<1>1. /\ iteration' = count /\ current' = next
      /\ stop' = IF stopped THEN "maxIterations" ELSE stop
      /\ pc' = IF next = End THEN "save" ELSE "dispatch"
  BY DEF Advance
<1>2. next # End /\ ~stopped /\ next = resolved
  BY <1>1 DEF Running
<1>3. resolved \in Nodes \union {End} /\ current \in Nodes
  BY RunningFacts, NextNodeType
<1>4. resolved \in 1..N /\ current \in 1..N /\ N \in Nat
  BY <1>2, <1>3, GraphAssumption DEF Nodes
<1>5. count < MaxIterations
  BY <1>2, RunningFacts
<1>6. Len(trace) <= iteration * N + current - 1 /\ stop = "none"
  BY DEF StepsAligned
<1>7. iteration * N \in Nat /\ (iteration + 1) * N = iteration * N + N
  BY RunningFacts, Budget
<1>8. Len(trace) + 1 <= count * N + resolved - 1
  <2> DEFINE spent == iteration * N
  <2>1. CASE resolved <= current
    <3>1. count = iteration + 1
      BY <1>2, <2>1 DEF IsBackEdge
    <3>2. Len(trace) + 1 <= (spent + N) + resolved - 1
      <4> HIDE DEF spent, resolved
      <4> QED BY <1>4, <1>6, <1>7, RunningFacts, SMTT(30) DEF spent
    <3> QED BY <1>7, <3>1, <3>2
  <2>2. CASE ~(resolved <= current)
    <3>1. count = iteration
      BY <1>4, <2>2, RunningFacts DEF IsBackEdge
    <3>2. Len(trace) + 1 <= spent + resolved - 1
      <4> HIDE DEF spent, resolved
      <4> QED BY <1>4, <1>6, <1>7, <2>2, RunningFacts, SMTT(30) DEF spent
    <3> QED BY <3>1, <3>2
  <2> QED BY <2>1, <2>2
<1>9. Len(trace') = Len(trace) + 1
  BY AdvanceEntry
<1> QED BY <1>1, <1>2, <1>5, <1>6, <1>8, <1>9

-----------------------------------------------------------------------------
(* The alignment of trace, history and disk.                               *)

\* The alignment of the entries, and of a running step, apart.
Entries ==
  \A i \in 1..Len(trace) : /\ trace[i].dispatched => i <= Len(disk)
                           /\ ~trace[i].error => i <= Len(history)
StepInProgress ==
  pc \in Running =>
    /\ stop = "none" /\ iteration < MaxIterations
    /\ Len(trace) <= iteration * N + current - 1
    /\ \A i \in 1..Len(trace) : trace[i].dispatched /\ ~trace[i].error
    /\ Len(disk) = Len(trace) + (IF pc = "dispatch" THEN 0 ELSE 1)
    /\ Len(history) = Len(trace) \/ (pc = "fail" /\ Len(history) = Len(trace) + 1)

LEMMA AlignedParts == TypeOK => (StepsAligned <=> Entries /\ StepInProgress)
  BY SMTT(30) DEF TypeOK, StepsAligned, Entries, StepInProgress

\* The lengths of disk and history after a step, from the types of their parts.
LEMMA Lengths ==
  ASSUME TypeOK
  PROVE  /\ Len(disk) \in Nat /\ Len(history) \in Nat /\ Len(trace) \in Nat
         /\ \A e : Len(Append(disk, e)) = Len(disk) + 1
         /\ \A e : Len(Append(history, e)) = Len(history) + 1
         /\ \A i, e : Len([disk EXCEPT ![i] = e]) = Len(disk)
  BY DEF TypeOK

LEMMA InitAligned == Init => StepsAligned
  BY GraphAssumption DEF Init, StepsAligned, Running, Nodes

\* The end by an error of a step that has a directory, or of one that has none.
LEMMA StopAligned ==
  ASSUME TypeOK, StepsAligned, pc \in Running, NEW d \in BOOLEAN, StopWithError(d),
         Len(disk') \in Nat, Len(disk') >= Len(disk), d => pc = "fail"
  PROVE  Entries' /\ StepInProgress'
<1>1. Entries /\ StepInProgress
  BY AlignedParts
<1>2. pc' = "save" /\ history' = history
  BY DEF StopWithError
<1>3. Entries'
  <2> SUFFICES ASSUME NEW i \in 1..Len(trace')
               PROVE  /\ trace'[i].dispatched => i <= Len(disk')
                      /\ ~trace'[i].error => i <= Len(history')
    BY DEF Entries
  <2>1. CASE i \in 1..Len(trace)
    <3>1. trace'[i] = trace[i]
      BY <2>1, StopEntry
    <3> QED BY <1>1, <1>2, <2>1, <3>1, Lengths DEF Entries
  <2>2. CASE i = Len(trace) + 1
    <3>1. (trace'[i].dispatched <=> d) /\ trace'[i].error
      BY <2>2, StopEntry
    <3>2. d => Len(disk) = Len(trace) + 1
      BY RunningFacts
    <3> QED BY <2>2, <3>1, <3>2, Lengths
  <2>3. Len(trace') = Len(trace) + 1
    BY StopEntry
  <2> QED BY <2>1, <2>2, <2>3, Lengths
<1> QED BY <1>2, <1>3 DEF StepInProgress, Running

LEMMA AlignedStep ==
  ASSUME TypeOK, StepsAligned, [Next]_vars
  PROVE  StepsAligned'
<1> USE DEF context
<1>a. TypeOK'
  BY TypingStep
<1>b. Entries /\ StepInProgress
  BY AlignedParts
<1> SUFFICES Entries' /\ StepInProgress'
  <2>1. DOMAIN trace' = 1..Len(trace')
    BY <1>a DEF TypeOK
  <2> QED BY <2>1 DEF StepsAligned, Entries, StepInProgress
<1>1. CASE Dispatch
  <2>1. /\ pc = "dispatch" /\ pc' = "execute" /\ Len(disk') = Len(disk) + 1
        /\ UNCHANGED <<current, trace, history, iteration, stop>>
    BY <1>1, Lengths DEF Dispatch
  <2> QED BY <1>b, <2>1, Lengths DEF Entries, StepInProgress, Running
<1>2. CASE DispatchFails
  <2>1. StopWithError(FALSE) /\ pc \in Running
    BY <1>2 DEF DispatchFails, Running
  <2>2. Len(disk') \in Nat /\ Len(disk') >= Len(disk)
    <3>1. CASE UNCHANGED disk
      BY <3>1, Lengths
    <3>2. CASE \E input \in BOOLEAN : disk' = Append(disk, Directory(input, Null, "none", FALSE))
      BY <3>2, Lengths
    <3> QED BY <1>2, <3>1, <3>2 DEF DispatchFails
  <2> QED BY <2>1, <2>2, StopAligned
<1>3. ASSUME NEW value \in Outputs, Execute(value) PROVE Entries' /\ StepInProgress'
  BY <1>3, <1>b DEF Execute, Entries, StepInProgress, Running
<1>4. CASE ExecuteFails
  BY <1>4, <1>b DEF ExecuteFails, Entries, StepInProgress, Running
<1>5. CASE Complete
  <2>1. /\ pc = "complete" /\ pc \in Running
        /\ Len(disk') = Len(disk) /\ Len(history') = Len(history) + 1
    BY <1>5, Lengths DEF Complete, Running
  <2>2. CASE ~Unmatched(current, values') /\ Advance(values')
    <3>1. /\ Len(trace') = Len(trace) + 1
          /\ \A i \in 1..Len(trace) : trace'[i] = trace[i]
          /\ trace'[Len(trace) + 1].dispatched = TRUE
          /\ trace'[Len(trace) + 1].error = FALSE
      BY <2>1, <2>2, AdvanceEntry
    <3>2. Len(disk) = Len(trace) + 1 /\ Len(history) = Len(trace)
      BY <1>b, <2>1 DEF StepInProgress
    <3>3. \A i \in 1..Len(trace') : trace'[i].dispatched /\ ~trace'[i].error
      BY <1>b, <2>1, <3>1, Lengths DEF StepInProgress
    <3>4. pc' \in Running => pc' = "dispatch"
      BY <2>2 DEF Advance, Running
    <3>5. Entries'
      BY <2>1, <3>1, <3>2, <3>3, Lengths DEF Entries
    <3>6. StepInProgress'
      BY <2>1, <2>2, <3>1, <3>2, <3>3, <3>4, AdvanceBudget, Lengths DEF StepInProgress
    <3> QED BY <3>5, <3>6
  <2>3. CASE pc' = "fail" /\ UNCHANGED <<current, iteration, trace, stop>>
    BY <1>b, <2>1, <2>3, Lengths DEF Entries, StepInProgress, Running
  <2> QED BY <1>5, <2>2, <2>3 DEF Complete
<1>6. CASE CompleteFails
  <2>1. /\ pc = "complete" /\ pc' = "fail" /\ Len(disk') = Len(disk)
        /\ UNCHANGED <<current, trace, history, iteration, stop>>
    BY <1>6, Lengths DEF CompleteFails
  <2> QED BY <1>b, <2>1, Lengths DEF Entries, StepInProgress, Running
<1>7. CASE Fail
  <2>1. StopWithError(TRUE) /\ pc = "fail" /\ Len(disk') = Len(disk)
    BY <1>7, Lengths DEF Fail
  <2>2. pc \in Running /\ Len(disk') \in Nat /\ Len(disk') >= Len(disk)
    BY <2>1, Lengths DEF Running
  <2>3. TRUE \in BOOLEAN /\ (TRUE => pc = "fail")
    BY <2>1
  <2> QED BY <2>1, <2>2, <2>3, StopAligned
<1>8. CASE FailFails
  <2>1. pc' = "rejected" /\ Len(disk') = Len(disk) /\ UNCHANGED <<trace, history>>
    BY <1>8, Lengths DEF FailFails
  <2> QED BY <1>b, <2>1, Lengths DEF Entries, StepInProgress, Running
<1>9. CASE Save
  BY <1>9, <1>b DEF Save, Entries, StepInProgress, Running
<1>10. CASE SaveFails
  BY <1>10, <1>b DEF SaveFails, Entries, StepInProgress, Running
<1>11. CASE UNCHANGED vars
  BY <1>11, <1>b DEF vars, Entries, StepInProgress, Running
<1> QED BY <1>1, <1>2, <1>3, <1>4, <1>5, <1>6, <1>7, <1>8, <1>9, <1>10, <1>11 DEF Next

-----------------------------------------------------------------------------
(* The bound on the length of a run.                                       *)

LEMMA BoundStep ==
  ASSUME TypeOK, StepsAligned, BoundedRun, [Next]_vars
  PROVE  BoundedRun'
<1> USE DEF context
<1>1. CASE UNCHANGED trace
  BY <1>1 DEF BoundedRun
<1>2. CASE pc \in Running /\ Len(trace') = Len(trace) + 1
  <2>1. Len(trace) <= iteration * N + current - 1 /\ iteration < MaxIterations
    BY <1>2 DEF StepsAligned
  <2>2. iteration * N + N <= MaxIterations * N /\ iteration * N \in Nat /\ MaxIterations * N \in Nat
    BY <1>2, RunningFacts, Budget
  <2>3. current <= N /\ current \in Nat
    BY <1>2, RunningFacts, GraphAssumption DEF Nodes
  <2> QED BY <1>2, <2>1, <2>2, <2>3, RunningFacts, SMTT(30) DEF BoundedRun
<1>3. CASE pc \in Running /\ \E d \in BOOLEAN : StopWithError(d)
  BY <1>2, <1>3, StopEntry
<1>4. CASE Complete
  <2>1. pc \in Running
    BY <1>4 DEF Complete, Running
  <2>2. CASE ~Unmatched(current, values') /\ Advance(values')
    BY <1>2, <2>1, <2>2, AdvanceEntry
  <2>3. CASE UNCHANGED trace
    BY <1>1, <2>3
  <2> QED BY <1>4, <2>2, <2>3 DEF Complete
<1>5. CASE DispatchFails
  BY <1>3, <1>5 DEF DispatchFails, Running
<1>6. CASE Fail
  BY <1>3, <1>6 DEF Fail, Running
<1>7. CASE Dispatch \/ (\E value \in Outputs : Execute(value)) \/ ExecuteFails \/ CompleteFails
           \/ FailFails \/ Save \/ SaveFails \/ UNCHANGED vars
  BY <1>1, <1>7 DEF Dispatch, Execute, ExecuteFails, CompleteFails, FailFails, Save, SaveFails, vars
<1> QED BY <1>4, <1>5, <1>6, <1>7 DEF Next

-----------------------------------------------------------------------------
(* The trace is a path.                                                    *)

\* A step that appends an entry for the current node extends the path.
LEMMA PathExtended ==
  ASSUME TypeOK, StepsAligned, TraceIsPath, pc \in Running,
         trace' \in Seq(TraceEntry),
         Len(trace') = Len(trace) + 1,
         \A i \in 1..Len(trace) : trace'[i] = trace[i],
         trace'[Len(trace) + 1].node = current,
         stop' = "error" \/ current' = trace'[Len(trace) + 1].next
  PROVE  TraceIsPath'
<1>1. stop = "none" /\ Len(trace) \in Nat /\ DOMAIN trace = 1..Len(trace)
      /\ DOMAIN trace' = 1..(Len(trace) + 1) /\ (trace = << >> <=> Len(trace) = 0)
  BY DEF StepsAligned, TypeOK
<1>2. current = IF trace = << >> THEN Start ELSE trace[Len(trace)].next
  BY <1>1 DEF TraceIsPath
<1>3. trace'[1].node = Start
  BY <1>1, <1>2 DEF TraceIsPath
<1>4. ASSUME NEW i \in DOMAIN trace', i > 1 PROVE trace'[i].node = trace'[i - 1].next
  <2>1. CASE i <= Len(trace)
    BY <1>1, <1>4, <2>1 DEF TraceIsPath
  <2>2. CASE i = Len(trace) + 1
    BY <1>1, <1>2, <1>4, <2>2
  <2> QED BY <1>1, <2>1, <2>2
<1>5. stop' # "error" => current' = IF trace' = << >> THEN Start ELSE trace'[Len(trace')].next
  BY <1>1
<1> QED BY <1>3, <1>4, <1>5 DEF TraceIsPath

LEMMA PathStep ==
  ASSUME TypeOK, StepsAligned, TraceIsPath, [Next]_vars
  PROVE  TraceIsPath'
<1> USE DEF context
<1>1. CASE UNCHANGED <<trace, current, stop>>
  BY <1>1 DEF TraceIsPath
<1>2. CASE pc \in Running /\ \E d \in BOOLEAN : StopWithError(d)
  BY <1>2, StopEntry, StopTyping, PathExtended
<1>3. CASE Complete
  <2>1. pc \in Running
    BY <1>3 DEF Complete, Running
  <2>2. CASE ~Unmatched(current, values') /\ Advance(values')
    <3>1. trace' \in Seq(TraceEntry)
      BY <2>1, <2>2, AdvanceTyping
    <3>2. /\ Len(trace') = Len(trace) + 1
          /\ \A i \in 1..Len(trace) : trace'[i] = trace[i]
          /\ trace'[Len(trace) + 1].node = current
          /\ trace'[Len(trace) + 1].next = current'
      BY <2>1, <2>2, AdvanceEntry
    <3> QED BY <2>1, <3>1, <3>2, PathExtended
  <2>3. CASE UNCHANGED <<trace, current, stop>>
    BY <1>1, <2>3
  <2> QED BY <1>3, <2>2, <2>3 DEF Complete
<1>4. CASE DispatchFails
  BY <1>2, <1>4 DEF DispatchFails, Running
<1>5. CASE Fail
  BY <1>2, <1>5 DEF Fail, Running
<1>6. CASE Dispatch \/ (\E value \in Outputs : Execute(value)) \/ ExecuteFails \/ CompleteFails
           \/ FailFails \/ Save \/ SaveFails \/ UNCHANGED vars
  BY <1>1, <1>6 DEF Dispatch, Execute, ExecuteFails, CompleteFails, FailFails, Save, SaveFails, vars
<1> QED BY <1>3, <1>4, <1>5, <1>6 DEF Next

-----------------------------------------------------------------------------
(* The artifacts on disk prove the trace.                                  *)

LEMMA Elements ==
  ASSUME TypeOK
  PROVE  /\ \A e : \A i \in 1..Len(disk) : Append(disk, e)[i] = disk[i]
         /\ \A e : \A i \in 1..Len(history) : Append(history, e)[i] = history[i]
         /\ \A e : Append(history, e)[Len(history) + 1] = e
<1>1. disk \in Seq(Artifacts) /\ history \in Seq(HistoryEntry)
  BY DEF TypeOK
<1> QED BY <1>1

\* What the directory of step i has to be for the entry e of the trace.
Proved(e, i, last, d, h) ==
  IF e.dispatched
  THEN d[i] = IF e.error
              THEN Directory(TRUE, "error", "failed", e.backed)
              ELSE Directory(TRUE, h[i].output, "completed", e.backed)
  ELSE e.error /\ i = last

LEMMA ArtifactsAreProved ==
  ArtifactsProveTrace <=> \A i \in DOMAIN trace : Proved(trace[i], i, Len(trace), disk, history)
  BY DEF ArtifactsProveTrace, Proved

\* While a step is in progress, every earlier one is complete on disk.
LEMMA ProvedSoFar ==
  ASSUME TypeOK, StepsAligned, ArtifactsProveTrace, pc \in Running, NEW i \in 1..Len(trace)
  PROVE  /\ trace[i].dispatched /\ ~trace[i].error
         /\ disk[i] = Directory(TRUE, history[i].output, "completed", trace[i].backed)
         /\ i \in DOMAIN disk /\ i \in DOMAIN history
<1>1. i \in DOMAIN trace /\ trace[i].dispatched /\ ~trace[i].error
  BY DEF StepsAligned, TypeOK
<1>2. i <= Len(disk) /\ i <= Len(history)
  BY <1>1 DEF StepsAligned
<1>3. i \in DOMAIN disk /\ i \in DOMAIN history
  BY <1>2, Lengths DEF TypeOK
<1> QED BY <1>1, <1>3 DEF ArtifactsProveTrace

\* A step that appends one proved entry and leaves the earlier ones alone.
LEMMA ArtifactsExtended ==
  ASSUME TypeOK, StepsAligned, ArtifactsProveTrace, pc \in Running,
         trace' \in Seq(TraceEntry),
         Len(trace') = Len(trace) + 1,
         \A i \in 1..Len(trace) : trace'[i] = trace[i] /\ disk'[i] = disk[i]
                                  /\ history'[i] = history[i],
         Proved(trace'[Len(trace) + 1], Len(trace) + 1, Len(trace) + 1, disk', history')
  PROVE  ArtifactsProveTrace'
<1>1. DOMAIN trace' = 1..(Len(trace) + 1) /\ Len(trace) \in Nat
  BY Lengths
<1>2. ASSUME NEW i \in 1..Len(trace) PROVE Proved(trace'[i], i, Len(trace'), disk', history')
  BY <1>2, ProvedSoFar DEF Proved
<1>3. \A i \in DOMAIN trace' : Proved(trace'[i], i, Len(trace'), disk', history')
  BY <1>1, <1>2
<1> QED BY <1>3 DEF ArtifactsProveTrace, Proved

\* A step that changes neither trace nor history, nor the directory of an entry.
LEMMA ArtifactsKept ==
  ASSUME TypeOK, StepsAligned, ArtifactsProveTrace, UNCHANGED trace,
         \A i \in DOMAIN trace : trace[i].dispatched => disk'[i] = disk[i],
         \A i \in DOMAIN history : history'[i] = history[i]
  PROVE  ArtifactsProveTrace'
<1>1. ASSUME NEW i \in DOMAIN trace, trace[i].dispatched, ~trace[i].error
      PROVE  history'[i] = history[i]
  <2>1. i \in Nat /\ i >= 1 /\ i <= Len(history)
    BY <1>1 DEF StepsAligned, TypeOK
  <2> QED BY <2>1 DEF TypeOK
<1>2. \A i \in DOMAIN trace : Proved(trace[i], i, Len(trace), disk, history)
  BY ArtifactsAreProved
<1>3. \A i \in DOMAIN trace' : Proved(trace'[i], i, Len(trace'), disk', history')
  BY <1>1, <1>2 DEF Proved
<1> QED BY <1>3 DEF ArtifactsProveTrace, Proved

LEMMA ArtifactsStep ==
  ASSUME TypeOK, StepsAligned, ArtifactsProveTrace, [Next]_vars
  PROVE  ArtifactsProveTrace'
<1> USE DEF context
<1>a. /\ disk \in Seq(Artifacts) /\ history \in Seq(HistoryEntry)
      /\ DOMAIN trace = 1..Len(trace) /\ Len(trace) \in Nat
  BY DEF TypeOK
\* In the last directory a running step may write without touching an entry.
<1>b. ASSUME pc \in Running, pc # "dispatch", NEW d, disk' = [disk EXCEPT ![Len(disk)] = d]
      PROVE  \A i \in 1..Len(trace) : disk'[i] = disk[i]
  BY <1>a, <1>b, RunningFacts
<1>1. CASE Dispatch
  <2>1. \A i \in DOMAIN trace : trace[i].dispatched => disk'[i] = disk[i]
    <3>1. disk' = Append(disk, Directory(TRUE, Null, "started", FALSE))
      BY <1>1 DEF Dispatch
    <3>2. \A i \in DOMAIN trace : trace[i].dispatched => i \in 1..Len(disk)
      BY <1>a, Lengths DEF StepsAligned
    <3> QED BY <3>1, <3>2, Elements
  <2> QED BY <1>1, <2>1, ArtifactsKept DEF Dispatch
<1>2. CASE DispatchFails
  <2>1. StopWithError(FALSE) /\ pc = "dispatch" /\ pc \in Running /\ history' = history
    BY <1>2 DEF DispatchFails, StopWithError, Running
  <2>2. \A i \in 1..Len(trace) : disk'[i] = disk[i]
    <3>1. CASE UNCHANGED disk
      BY <3>1
    <3>2. CASE \E input \in BOOLEAN : disk' = Append(disk, Directory(input, Null, "none", FALSE))
      <4>1. \A i \in 1..Len(trace) : i \in 1..Len(disk)
        BY <1>a, <2>1, Lengths DEF StepsAligned
      <4> QED BY <3>2, <4>1, Elements
    <3> QED BY <1>2, <3>1, <3>2 DEF DispatchFails
  <2>3. /\ Len(trace') = Len(trace) + 1 /\ trace' \in Seq(TraceEntry)
        /\ \A i \in 1..Len(trace) : trace'[i] = trace[i]
        /\ trace'[Len(trace) + 1].error /\ ~trace'[Len(trace) + 1].dispatched
    BY <2>1, StopEntry, StopTyping
  <2>4. Proved(trace'[Len(trace) + 1], Len(trace) + 1, Len(trace) + 1, disk', history')
    BY <2>3 DEF Proved
  <2> QED BY <2>1, <2>2, <2>3, <2>4, ArtifactsExtended
<1>3. CASE Complete
  <2>1. /\ pc = "complete" /\ pc \in Running
        /\ disk' = [disk EXCEPT ![Len(disk)] = Directory(TRUE, output, "completed", Backed(current))]
        /\ history' = Append(history, [node |-> current, output |-> output, step |-> Step])
    BY <1>3 DEF Complete, Running
  <2>2. Len(disk) = Len(trace) + 1 /\ Len(disk) \in DOMAIN disk /\ Len(history) = Len(trace)
    BY <2>1, RunningFacts DEF StepsAligned
  <2>3. \A i \in 1..Len(trace) : disk'[i] = disk[i] /\ history'[i] = history[i]
    <3>1. \A i \in 1..Len(trace) : disk'[i] = disk[i]
      BY <1>b, <2>1
    <3>2. \A i \in 1..Len(trace) : history'[i] = history[i]
      BY <2>1, <2>2, Elements
    <3> QED BY <3>1, <3>2
  <2>4. /\ disk'[Len(trace) + 1] = Directory(TRUE, output, "completed", Backed(current))
        /\ history'[Len(trace) + 1].output = output
    <3>1. disk'[Len(trace) + 1] = Directory(TRUE, output, "completed", Backed(current))
      BY <1>a, <2>1, <2>2
    <3>2. history'[Len(trace) + 1] = [node |-> current, output |-> output, step |-> Step]
      BY <2>1, <2>2, Elements
    <3> QED BY <3>1, <3>2
  <2>5. CASE ~Unmatched(current, values') /\ Advance(values')
    <3>1. /\ Len(trace') = Len(trace) + 1 /\ trace' \in Seq(TraceEntry)
          /\ \A i \in 1..Len(trace) : trace'[i] = trace[i]
          /\ trace'[Len(trace) + 1].dispatched /\ ~trace'[Len(trace) + 1].error
          /\ trace'[Len(trace) + 1].backed = Backed(current)
      BY <2>1, <2>5, AdvanceEntry, AdvanceTyping
    <3>2. Proved(trace'[Len(trace) + 1], Len(trace) + 1, Len(trace) + 1, disk', history')
      BY <2>4, <3>1 DEF Proved
    <3> QED BY <2>1, <2>3, <3>1, <3>2, ArtifactsExtended
  <2>6. CASE UNCHANGED trace
    <3>1. \A i \in DOMAIN history : history'[i] = history[i]
      BY <1>a, <2>2, <2>3
    <3>2. \A i \in DOMAIN trace : disk'[i] = disk[i]
      BY <1>a, <2>3
    <3> QED BY <2>6, <3>1, <3>2, ArtifactsKept
  <2> QED BY <1>3, <2>5, <2>6 DEF Complete
<1>4. CASE CompleteFails
  <2>1. pc \in Running /\ pc # "dispatch" /\ UNCHANGED <<trace, history>>
    BY <1>4 DEF CompleteFails, Running
  <2>2. \A i \in 1..Len(trace) : disk'[i] = disk[i]
    <3>1. PICK out : disk' = [disk EXCEPT ![Len(disk)].output = out]
      BY <1>4 DEF CompleteFails
    <3> QED BY <1>b, <2>1, <3>1
  <2> QED BY <1>a, <2>1, <2>2, ArtifactsKept
<1>5. CASE Fail
  <2>1. /\ StopWithError(TRUE) /\ pc = "fail" /\ pc \in Running /\ history' = history
        /\ disk' = [disk EXCEPT ![Len(disk)] = Directory(TRUE, "error", "failed", Backed(current))]
    BY <1>5 DEF Fail, StopWithError, Running
  <2>2. Len(disk) = Len(trace) + 1 /\ Len(disk) \in DOMAIN disk
    BY <2>1, RunningFacts
  <2>3. \A i \in 1..Len(trace) : disk'[i] = disk[i]
    BY <1>b, <2>1
  <2>4. disk'[Len(trace) + 1] = Directory(TRUE, "error", "failed", Backed(current))
    BY <1>a, <2>1, <2>2
  <2>5. TRUE \in BOOLEAN
    OBVIOUS
  <2>6. /\ Len(trace') = Len(trace) + 1 /\ trace' \in Seq(TraceEntry)
        /\ \A i \in 1..Len(trace) : trace'[i] = trace[i]
        /\ trace'[Len(trace) + 1].error /\ trace'[Len(trace) + 1].dispatched
        /\ trace'[Len(trace) + 1].backed = Backed(current)
    <3>1. trace' \in Seq(TraceEntry)
      BY <2>1, <2>5, StopTyping
    <3>2. /\ Len(trace') = Len(trace) + 1
          /\ \A i \in 1..Len(trace) : trace'[i] = trace[i]
          /\ trace'[Len(trace) + 1].error /\ trace'[Len(trace) + 1].dispatched
          /\ trace'[Len(trace) + 1] =
               [node |-> current, next |-> End, error |-> TRUE, dispatched |-> TRUE,
                backed |-> TRUE /\ Backed(current)]
      BY <2>1, <2>5, StopEntry
    <3>3. (TRUE /\ Backed(current)) = Backed(current)
      BY BackedType
    <3> QED BY <3>1, <3>2, <3>3
  <2>7. Proved(trace'[Len(trace) + 1], Len(trace) + 1, Len(trace) + 1, disk', history')
    BY <2>4, <2>6 DEF Proved
  <2> QED BY <2>1, <2>3, <2>6, <2>7, ArtifactsExtended
<1>6. CASE FailFails
  <2>1. pc \in Running /\ pc # "dispatch" /\ UNCHANGED <<trace, history>>
    BY <1>6 DEF FailFails, Running
  <2>2. \A i \in 1..Len(trace) : disk'[i] = disk[i]
    <3>1. PICK out : disk' = [disk EXCEPT ![Len(disk)].output = out]
      BY <1>6 DEF FailFails
    <3> QED BY <1>b, <2>1, <3>1
  <2> QED BY <1>a, <2>1, <2>2, ArtifactsKept
<1>7. CASE (\E value \in Outputs : Execute(value)) \/ ExecuteFails \/ Save \/ SaveFails
           \/ UNCHANGED vars
  <2>1. UNCHANGED <<trace, disk, history>>
    BY <1>7 DEF Execute, ExecuteFails, Save, SaveFails, vars
  <2> QED BY <2>1, ArtifactsKept
<1> QED BY <1>1, <1>2, <1>3, <1>4, <1>5, <1>6, <1>7 DEF Next

-----------------------------------------------------------------------------
(* The values of the context, recomputed from the history.                 *)

Writers(h, i, k) == {j \in DOMAIN h : j <= i /\ Key[h[j].node] = k}
Latest(S) == CHOOSE j \in S : \A l \in S : l <= j
OutputAt(h, i, k) == IF Writers(h, i, k) = {} THEN Null ELSE h[Latest(Writers(h, i, k))].output
ValuesAt(h, i) == [k \in Keys |-> OutputAt(h, i, k)]

LEMMA LatestIn ==
  ASSUME NEW n \in Nat, NEW S \in SUBSET (1..n), S # {}
  PROVE  Latest(S) \in S /\ \A l \in S : l <= Latest(S)
<1>1. \E x \in S : \A l \in S : l <= x
  BY GreatestIndex
<1> QED BY <1>1, Zenon DEF Latest

\* What follows in the history does not change what came before it.
LEMMA ValuesKept ==
  ASSUME NEW h \in Seq(HistoryEntry), NEW e \in HistoryEntry, NEW i \in Nat, i <= Len(h)
  PROVE  ValuesAt(Append(h, e), i) = ValuesAt(h, i)
<1> SUFFICES ASSUME NEW k \in Keys PROVE OutputAt(Append(h, e), i, k) = OutputAt(h, i, k)
  BY Zenon DEF ValuesAt
<1>1. /\ DOMAIN h = 1..Len(h) /\ DOMAIN Append(h, e) = 1..(Len(h) + 1) /\ Len(h) \in Nat
      /\ \A j \in 1..Len(h) : Append(h, e)[j] = h[j]
  OBVIOUS
<1>2. Writers(Append(h, e), i, k) = Writers(h, i, k)
  BY <1>1 DEF Writers
<1>3. CASE Writers(h, i, k) = {}
  BY <1>2, <1>3, Zenon DEF OutputAt
<1>4. CASE Writers(h, i, k) # {}
  <2>1. Writers(h, i, k) \in SUBSET (1..Len(h))
    BY <1>1 DEF Writers
  <2>2. Latest(Writers(h, i, k)) \in 1..Len(h)
    BY <1>1, <1>4, <2>1, LatestIn
  <2> QED BY <1>1, <1>2, <1>4, <2>2, Zenon DEF OutputAt
<1> QED BY <1>3, <1>4

\* The latest entry sets the value of its key and no other.
LEMMA ValuesWritten ==
  ASSUME NEW h \in Seq(HistoryEntry), NEW e \in HistoryEntry
  PROVE  ValuesAt(Append(h, e), Len(h) + 1) = [ValuesAt(h, Len(h)) EXCEPT ![Key[e.node]] = e.output]
<1> DEFINE n == Len(h) + 1
           g == Append(h, e)
<1>1. /\ DOMAIN h = 1..Len(h) /\ DOMAIN g = 1..n /\ n \in Nat /\ Len(h) \in Nat
      /\ \A j \in 1..Len(h) : g[j] = h[j]
      /\ g[n] = e
  OBVIOUS
<1>2. \A j \in 1..n : j \in 1..Len(h) \/ j = n
  BY <1>1
<1>3. Len(h) < n /\ ~(n <= Len(h))
  BY <1>1
<1> HIDE DEF n, g
<1> SUFFICES ASSUME NEW k \in Keys
             PROVE  OutputAt(g, n, k) = IF k = Key[e.node] THEN e.output ELSE OutputAt(h, Len(h), k)
  BY Zenon DEF ValuesAt, n, g
<1>4. CASE k = Key[e.node]
  <2>1. Writers(g, n, k) \in SUBSET (1..n) /\ n \in Writers(g, n, k)
    BY <1>1, <1>3, <1>4 DEF Writers, n
  <2>2. Latest(Writers(g, n, k)) \in 1..n /\ n <= Latest(Writers(g, n, k))
    BY <1>1, <2>1, LatestIn
  <2>3. Latest(Writers(g, n, k)) = n
    BY <1>1, <2>2
  <2> QED BY <1>1, <1>4, <2>1, <2>3, Zenon DEF OutputAt
<1>5. CASE k # Key[e.node]
  <2>1. Writers(g, n, k) = Writers(h, Len(h), k)
    <3>1. ASSUME NEW j \in Writers(g, n, k) PROVE j \in Writers(h, Len(h), k)
      BY <1>1, <1>2, <1>5, <3>1 DEF Writers
    <3>2. ASSUME NEW j \in Writers(h, Len(h), k) PROVE j \in Writers(g, n, k)
      BY <1>1, <3>2 DEF Writers, n
    <3> QED BY <3>1, <3>2
  <2>2. CASE Writers(h, Len(h), k) = {}
    BY <1>5, <2>1, <2>2, Zenon DEF OutputAt
  <2>3. CASE Writers(h, Len(h), k) # {}
    <3>1. Writers(h, Len(h), k) \in SUBSET (1..Len(h))
      BY <1>1 DEF Writers
    <3>2. Latest(Writers(h, Len(h), k)) \in 1..Len(h)
      BY <1>1, <2>3, <3>1, LatestIn
    <3> QED BY <1>1, <1>5, <2>1, <2>3, <3>2, Zenon DEF OutputAt
  <2> QED BY <2>2, <2>3
<1> QED BY <1>4, <1>5

LEMMA ValuesOfHistory == \A i : ValuesAfter(i) = ValuesAt(history, i)
  BY Zenon DEF ValuesAfter, ValuesAt, OutputAt, Writers, Latest

LEMMA ValuesOfHistoryNext == \A i : ValuesAfter(i)' = ValuesAt(history', i)
  BY Zenon DEF ValuesAfter, ValuesAt, OutputAt, Writers, Latest

\* The context holds, for each key, the latest output of the history under it.
ValuesCurrent == values = ValuesAt(history, Len(history))

\* The entry that a completed step adds to the history.
LEMMA HistoryGrows ==
  ASSUME TypeOK, StepsAligned, ValuesCurrent, Complete
  PROVE  /\ pc \in Running /\ Len(history) = Len(trace) /\ Len(history') = Len(trace) + 1
         /\ \A i \in 1..Len(history) : /\ history'[i] = history[i]
                                       /\ ValuesAt(history', i) = ValuesAt(history, i)
         /\ history'[Len(trace) + 1].node = current
         /\ values' = ValuesAt(history', Len(history'))
<1> DEFINE e == [node |-> current, output |-> output, step |-> Step]
<1>1. pc = "complete" /\ pc \in Running /\ Len(history) = Len(trace)
  BY DEF Complete, Running, StepsAligned
<1>2. e \in HistoryEntry /\ history \in Seq(HistoryEntry)
  <2>1. current \in Nodes /\ Step \in Nat /\ output \in Outputs
    BY <1>1, RunningFacts DEF TypeOK, Step
  <2> QED BY <2>1 DEF HistoryEntry, TypeOK
<1>3. e.node = current /\ e.output = output
  OBVIOUS
<1>4. history' = Append(history, e) /\ values' = [values EXCEPT ![Key[current]] = output]
  BY DEF Complete
<1> HIDE DEF e
<1>5. /\ Len(history') = Len(history) + 1 /\ Len(history) \in Nat
      /\ \A i \in 1..Len(history) : history'[i] = history[i]
      /\ history'[Len(history) + 1] = e
  BY <1>2, <1>4, AppendProperties
<1>6. \A i \in 1..Len(history) : ValuesAt(history', i) = ValuesAt(history, i)
  BY <1>2, <1>4, <1>5, ValuesKept
<1>7. values' = ValuesAt(history', Len(history) + 1)
  BY <1>2, <1>3, <1>4, ValuesWritten DEF ValuesCurrent
<1> QED BY <1>1, <1>3, <1>5, <1>6, <1>7

LEMMA CurrentStep ==
  ASSUME TypeOK, StepsAligned, ValuesCurrent, [Next]_vars
  PROVE  ValuesCurrent'
<1>1. CASE Complete
  BY <1>1, HistoryGrows DEF ValuesCurrent
<1>2. CASE ~Complete
  <2>1. UNCHANGED <<values, history>>
    BY <1>2 DEF Next, vars, context, Dispatch, DispatchFails, StopWithError, Execute,
                ExecuteFails, CompleteFails, Fail, FailFails, Save, SaveFails
  <2> QED BY <2>1 DEF ValuesCurrent
<1> QED BY <1>1, <1>2

-----------------------------------------------------------------------------
(* The history explains the routes.                                        *)

\* While a run goes on, every entry of its trace follows the edge that the values
\* of its moment choose.
LEMMA RouteSoFar ==
  ASSUME TypeOK, StepsAligned, RoutesExplained, pc \in Running, NEW i \in 1..Len(trace)
  PROVE  /\ i \in 1..Len(history) /\ history[i].node = trace[i].node
         /\ trace[i].next = NextNode(trace[i].node, ValuesAt(history, i))
<1>1. i \in DOMAIN trace /\ ~trace[i].error /\ stop = "none"
  BY DEF StepsAligned, TypeOK
<1>2. i \in DOMAIN history /\ history[i].node = trace[i].node
      /\ trace[i].next = NextNode(trace[i].node, ValuesAfter(i))
  BY <1>1 DEF RoutesExplained
<1>3. DOMAIN history = 1..Len(history)
  BY DEF TypeOK
<1> QED BY <1>2, <1>3, ValuesOfHistory

\* The entry i with node n and edge e is explained by the history h.
Explained(i, n, e, h, last, s, count) ==
  /\ i \in DOMAIN h /\ h[i].node = n
  /\ \/ e = NextNode(n, ValuesAt(h, i))
     \/ /\ i = last /\ s = "maxIterations" /\ count = MaxIterations
        /\ e = End /\ IsBackEdge(n, NextNode(n, ValuesAt(h, i)))

LEMMA RoutesAre ==
  RoutesExplained <=>
    \A i \in DOMAIN trace : ~trace[i].error =>
      Explained(i, trace[i].node, trace[i].next, history, Len(trace), stop, iteration)
  BY ValuesOfHistory DEF RoutesExplained, Explained

LEMMA RoutesAreNext ==
  RoutesExplained' <=>
    \A i \in DOMAIN trace' : ~trace'[i].error =>
      Explained(i, trace'[i].node, trace'[i].next, history', Len(trace'), stop', iteration')
  BY ValuesOfHistoryNext DEF RoutesExplained, Explained

\* A step that appends an entry to the trace and keeps what explains the others.
LEMMA RoutesExtended ==
  ASSUME TypeOK, StepsAligned, RoutesExplained, pc \in Running,
         trace' \in Seq(TraceEntry), history' \in Seq(HistoryEntry),
         Len(trace') = Len(trace) + 1, Len(history') >= Len(history),
         \A i \in 1..Len(trace) : trace'[i] = trace[i],
         \A i \in 1..Len(history) : /\ history'[i] = history[i]
                                    /\ ValuesAt(history', i) = ValuesAt(history, i),
         LET i == Len(trace) + 1 IN
           ~trace'[i].error =>
             Explained(i, trace'[i].node, trace'[i].next, history', i, stop', iteration')
  PROVE  RoutesExplained'
<1> SUFFICES ASSUME NEW i \in DOMAIN trace', ~trace'[i].error
             PROVE  Explained(i, trace'[i].node, trace'[i].next, history', Len(trace'), stop', iteration')
  BY RoutesAreNext
<1>1. DOMAIN trace' = 1..(Len(trace) + 1) /\ Len(trace) \in Nat /\ Len(history) \in Nat
      /\ DOMAIN history' = 1..Len(history') /\ Len(history') \in Nat
  BY Lengths
<1>2. CASE i \in 1..Len(trace)
  <2>1. /\ i \in 1..Len(history) /\ history[i].node = trace[i].node
        /\ trace[i].next = NextNode(trace[i].node, ValuesAt(history, i))
    BY <1>2, RouteSoFar
  <2>2. i \in DOMAIN history'
    BY <1>1, <2>1
  <2>3. trace'[i] = trace[i] /\ history'[i] = history[i] /\ ValuesAt(history', i) = ValuesAt(history, i)
    BY <1>2, <2>1
  <2> QED BY <2>1, <2>2, <2>3 DEF Explained
<1>3. CASE i = Len(trace) + 1
  BY <1>3
<1> QED BY <1>1, <1>2, <1>3

\* An advance takes the chosen edge, or ends the run in place of a back edge with
\* every iteration used.
LEMMA AdvanceRoute ==
  ASSUME TypeOK, StepsAligned, pc \in Running, NEW vals, ~Unmatched(current, vals), Advance(vals)
  PROVE  \/ current' = NextNode(current, vals)
         \/ /\ stop' = "maxIterations" /\ iteration' = MaxIterations
            /\ current' = End /\ IsBackEdge(current, NextNode(current, vals))
<1> DEFINE resolved == NextNode(current, vals)
           count == iteration + (IF IsBackEdge(current, resolved) THEN 1 ELSE 0)
           stopped == count >= MaxIterations /\ resolved # End
<1>1. /\ iteration' = count /\ current' = IF stopped THEN End ELSE resolved
      /\ stop' = IF stopped THEN "maxIterations" ELSE stop
  BY DEF Advance
<1>2. CASE ~stopped
  BY <1>1, <1>2
<1>3. CASE stopped
  <2>1. iteration \in Nat /\ MaxIterations \in Nat /\ iteration < MaxIterations
    BY RunningFacts
  <2>2. IsBackEdge(current, resolved) /\ count = MaxIterations
    BY <1>3, <2>1
  <2> QED BY <1>1, <1>3, <2>2
<1> QED BY <1>2, <1>3

LEMMA RoutesStep ==
  ASSUME TypeOK, StepsAligned, ValuesCurrent, RoutesExplained, [Next]_vars
  PROVE  RoutesExplained'
<1> USE DEF context
<1>a. TypeOK'
  BY TypingStep
<1>b. trace' \in Seq(TraceEntry) /\ history' \in Seq(HistoryEntry)
      /\ DOMAIN trace = 1..Len(trace) /\ DOMAIN history = 1..Len(history)
  BY <1>a DEF TypeOK
<1>1. CASE UNCHANGED <<trace, history, stop, iteration>>
  BY <1>1, RoutesAre, RoutesAreNext
<1>2. CASE pc \in Running /\ \E d \in BOOLEAN : StopWithError(d)
  <2>1. history' = history
    BY <1>2 DEF StopWithError
  <2>2. /\ Len(trace') = Len(trace) + 1 /\ \A i \in 1..Len(trace) : trace'[i] = trace[i]
        /\ trace'[Len(trace) + 1].error
    BY <1>2, StopEntry
  <2>3. Len(history') >= Len(history)
    BY <2>1, Lengths
  <2> QED BY <1>2, <1>b, <2>1, <2>2, <2>3, RoutesExtended
<1>3. CASE Complete
  <2>1. /\ pc \in Running /\ Len(history) = Len(trace) /\ Len(history') = Len(trace) + 1
        /\ \A i \in 1..Len(history) : /\ history'[i] = history[i]
                                      /\ ValuesAt(history', i) = ValuesAt(history, i)
        /\ history'[Len(trace) + 1].node = current
        /\ values' = ValuesAt(history', Len(trace) + 1)
    BY <1>3, HistoryGrows
  <2>2. CASE ~Unmatched(current, values') /\ Advance(values')
    <3>1. /\ Len(trace') = Len(trace) + 1 /\ \A i \in 1..Len(trace) : trace'[i] = trace[i]
          /\ trace'[Len(trace) + 1].node = current
          /\ trace'[Len(trace) + 1].next = current'
      BY <2>1, <2>2, AdvanceEntry
    <3>2. \/ current' = NextNode(current, values')
          \/ /\ stop' = "maxIterations" /\ iteration' = MaxIterations
             /\ current' = End /\ IsBackEdge(current, NextNode(current, values'))
      BY <2>1, <2>2, AdvanceRoute
    <3>3. Len(trace) + 1 \in DOMAIN history' /\ Len(history') >= Len(history)
      BY <1>b, <2>1, Lengths
    <3>4. LET i == Len(trace) + 1 IN
            Explained(i, trace'[i].node, trace'[i].next, history', i, stop', iteration')
      BY <2>1, <3>1, <3>2, <3>3 DEF Explained
    <3> QED BY <1>b, <2>1, <3>1, <3>3, <3>4, RoutesExtended
  <2>3. CASE UNCHANGED <<current, iteration, trace, stop>>
    <3> SUFFICES ASSUME NEW i \in DOMAIN trace', ~trace'[i].error
                 PROVE  Explained(i, trace'[i].node, trace'[i].next, history', Len(trace'), stop', iteration')
      BY RoutesAreNext
    <3>1. i \in 1..Len(trace) /\ trace' = trace
      BY <1>b, <2>3
    <3>2. /\ i \in 1..Len(history) /\ history[i].node = trace[i].node
          /\ trace[i].next = NextNode(trace[i].node, ValuesAt(history, i))
      BY <2>1, <3>1, RouteSoFar
    <3>3. i \in DOMAIN history'
      BY <1>b, <2>1, <3>2, Lengths
    <3> QED BY <2>1, <3>1, <3>2, <3>3 DEF Explained
  <2> QED BY <1>3, <2>2, <2>3 DEF Complete
<1>4. CASE DispatchFails
  BY <1>2, <1>4 DEF DispatchFails, Running
<1>5. CASE Fail
  BY <1>2, <1>5 DEF Fail, Running
<1>6. CASE Dispatch \/ (\E value \in Outputs : Execute(value)) \/ ExecuteFails \/ CompleteFails
           \/ FailFails \/ Save \/ SaveFails \/ UNCHANGED vars
  BY <1>1, <1>6 DEF Dispatch, Execute, ExecuteFails, CompleteFails, FailFails, Save, SaveFails, vars
<1> QED BY <1>3, <1>4, <1>5, <1>6 DEF Next

-----------------------------------------------------------------------------
(* What the dispatch records tell.                                         *)

\* While a run goes on, its records are its completed steps, in order; the output
\* that no trace entry shows is one that no edge of the current node matches.
RecordsFollow ==
  pc \in Running =>
    /\ Len(records) = Len(history)
    /\ \A i \in 1..Len(records) : records[i].step = i /\ records[i].status = "completed"
    /\ Len(history) # Len(trace) =>
         records[Len(records)].node = current /\ Unmatched(current, values)

\* While a run goes on, no call is of a later step, and an llm node whose executor
\* has answered has the call of this step.
CallsFollow ==
  pc \in Running =>
    /\ \A j \in 1..Len(calls) : calls[j].step <= Step
    /\ pc = "complete" /\ current \in Llm =>
         \E j \in 1..Len(calls) :
           calls[j] = [step |-> Step, node |-> current, status |-> "completed"]

\* The record r has the calls behind it that it claims.
CallBehind(r, cs) ==
  r.backed =>
    \E j \in 1..Len(cs) :
      /\ cs[j].node = r.node /\ cs[j].status = "completed"
      /\ IF r.status = "completed" THEN cs[j].step = r.step ELSE cs[j].step <= r.step

LEMMA SequenceTypes ==
  ASSUME TypeOK
  PROVE  /\ Len(records) \in Nat /\ DOMAIN records = 1..Len(records)
         /\ Len(calls) \in Nat /\ DOMAIN calls = 1..Len(calls)
         /\ \A i \in 1..Len(records) : records[i] \in DispatchRecord
         /\ \A j \in 1..Len(calls) : calls[j] \in CallRecord
<1>1. records \in Seq(DispatchRecord) /\ calls \in Seq(CallRecord)
  BY DEF TypeOK
<1>2. /\ Len(records) \in Nat /\ DOMAIN records = 1..Len(records)
      /\ Len(calls) \in Nat /\ DOMAIN calls = 1..Len(calls)
  BY <1>1
<1>3. \A i \in 1..Len(records) : records[i] \in DispatchRecord
  BY <1>1, <1>2, ElementOfSeq, Zenon
<1>4. \A j \in 1..Len(calls) : calls[j] \in CallRecord
  BY <1>1, <1>2, ElementOfSeq, Zenon
<1> QED BY <1>2, <1>3, <1>4

\* A status that LastCall reports other than "not called" is that of a call.
LEMMA LastCallIsCall ==
  ASSUME TypeOK, NEW n, LastCall(n) = "completed"
  PROVE  \E j \in 1..Len(calls) : calls[j].node = n /\ calls[j].status = "completed"
<1> DEFINE ofNode == {i \in DOMAIN calls : calls[i].node = n}
<1>1. DOMAIN calls = 1..Len(calls) /\ Len(calls) \in Nat
  BY SequenceTypes
<1>2. ofNode # {}
  BY DEF LastCall, CallNone
<1>3. ofNode \in SUBSET (1..Len(calls))
  BY <1>1
<1>4. LastCall(n) = calls[Latest(ofNode)].status
  BY <1>2, Zenon DEF LastCall, Latest
<1>5. Latest(ofNode) \in ofNode
  <2> HIDE DEF ofNode
  <2> QED BY <1>1, <1>2, <1>3, LatestIn
<1> QED BY <1>1, <1>4, <1>5

\* The record appended when a dispatch ends.
LEMMA RecordAdded ==
  ASSUME TypeOK, StepsAligned, pc \in Running, NEW status \in {"completed", "failed"},
         records' = Append(records, Record(status))
  PROVE  /\ Len(records') = Len(records) + 1
         /\ \A i \in 1..Len(records) : records'[i] = records[i]
         /\ records'[Len(records) + 1] = Record(status)
         /\ records'[Len(records) + 1].step = Len(trace) + 1
         /\ records'[Len(records) + 1].status = status
         /\ records'[Len(records) + 1].node = current
<1>1. current \in Nodes /\ Step \in Nat /\ Backed(current) \in BOOLEAN /\ Step = Len(trace) + 1
  BY RunningFacts, BackedType DEF Step
<1>2. Record(status) \in DispatchRecord
  BY <1>1 DEF Record, DispatchRecord
<1>3. records \in Seq(DispatchRecord)
  BY DEF TypeOK
<1>4. /\ Len(records') = Len(records) + 1
      /\ \A i \in 1..Len(records) : records'[i] = records[i]
      /\ records'[Len(records) + 1] = Record(status)
  BY <1>2, <1>3, AppendProperties
<1>5. /\ Record(status).step = Len(trace) + 1
      /\ Record(status).status = status /\ Record(status).node = current
  BY <1>1 DEF Record
<1> QED BY <1>4, <1>5

LEMMA RecordsStep ==
  ASSUME TypeOK, StepsAligned, ValuesCurrent, RecordsFollow, [Next]_vars
  PROVE  RecordsFollow'
<1> USE DEF context
<1>1. CASE UNCHANGED <<records, history, trace, current, values>> /\ (pc' \in Running => pc \in Running)
  BY <1>1 DEF RecordsFollow
<1>2. CASE pc' \notin Running
  BY <1>2 DEF RecordsFollow
<1>3. CASE Complete
  <2>1. /\ pc \in Running /\ Len(history) = Len(trace) /\ Len(history') = Len(trace) + 1
        /\ Len(trace) \in Nat
    BY <1>3, HistoryGrows, Lengths
  <2>2. /\ Len(records') = Len(records) + 1
        /\ \A i \in 1..Len(records) : records'[i] = records[i]
        /\ records'[Len(records) + 1].step = Len(trace) + 1
        /\ records'[Len(records) + 1].status = "completed"
        /\ records'[Len(records) + 1].node = current
    BY <1>3, <2>1, RecordAdded DEF Complete
  <2>3. Len(records) = Len(trace)
        /\ \A i \in 1..Len(records) : records[i].step = i /\ records[i].status = "completed"
    BY <2>1 DEF RecordsFollow
  <2>4. /\ Len(records') = Len(history')
        /\ \A i \in 1..Len(records') : records'[i].step = i /\ records'[i].status = "completed"
    BY <2>1, <2>2, <2>3
  <2>5. CASE ~Unmatched(current, values') /\ Advance(values')
    <3>1. Len(trace') = Len(trace) + 1
      BY <2>1, <2>5, AdvanceEntry
    <3> QED BY <2>1, <2>4, <3>1 DEF RecordsFollow
  <2>6. CASE Unmatched(current, values') /\ UNCHANGED current
    <3>1. records'[Len(records')].node = current' /\ Unmatched(current, values)'
      BY <2>2, <2>6 DEF Unmatched, Matching, Outgoing
    <3> QED BY <2>4, <3>1 DEF RecordsFollow
  <2> QED BY <1>3, <2>5, <2>6 DEF Complete
<1>4. CASE ~Complete
  <2>1. \/ pc' \notin Running
        \/ /\ UNCHANGED <<records, history, trace, current, values>>
           /\ pc' \in Running => pc \in Running
    BY <1>4 DEF Next, vars, Dispatch, DispatchFails, StopWithError, Execute, Running,
                ExecuteFails, CompleteFails, Fail, FailFails, Save, SaveFails
  <2> QED BY <1>1, <1>2, <2>1
<1> QED BY <1>3, <1>4

\* The records rs share a step only where the history h explains it.
OneRecord(rs, h) ==
  \A i, j \in DOMAIN rs : i < j /\ rs[i].step = rs[j].step =>
    /\ rs[i].status = "completed" /\ rs[j].status = "failed" /\ j = Len(rs)
    /\ Unmatched(rs[i].node, ValuesAt(h, rs[i].step))

LEMMA OneRecordIs == OneRecordPerDispatch <=> OneRecord(records, history)
  BY ValuesOfHistory DEF OneRecordPerDispatch, OneRecord

LEMMA OneRecordIsNext == OneRecordPerDispatch' <=> OneRecord(records', history')
  BY Zenon DEF OneRecordPerDispatch, OneRecord, ValuesAfter, ValuesAt, OutputAt, Writers, Latest,
               Unmatched, Matching, Outgoing

LEMMA OneRecordStep ==
  ASSUME TypeOK, StepsAligned, ValuesCurrent, RecordsFollow, OneRecordPerDispatch, [Next]_vars
  PROVE  OneRecordPerDispatch'
<1> USE DEF context
<1>a. TypeOK' /\ RecordsFollow' /\ StepsAligned'
  BY TypingStep, RecordsStep, AlignedStep
\* As long as the run goes on, no two records share a step.
<1>1. CASE pc' \in Running
  <2>1. DOMAIN records' = 1..Len(records')
    BY <1>a DEF TypeOK
  <2>2. \A i \in 1..Len(records') : records'[i].step = i
    BY <1>1, <1>a DEF RecordsFollow
  <2>3. \A i, j \in DOMAIN records' : ~(i < j /\ records'[i].step = records'[j].step)
    BY <2>1, <2>2
  <2> QED BY <2>3, OneRecordIsNext DEF OneRecord
<1>2. CASE UNCHANGED <<records, history>>
  BY <1>2, OneRecordIs, OneRecordIsNext
<1>3. CASE Complete /\ pc' \notin Running
  <2>1. /\ pc \in Running /\ Len(history) = Len(trace) /\ Len(trace) \in Nat
    BY <1>3, HistoryGrows, Lengths
  <2>2. /\ Len(records') = Len(records) + 1
        /\ \A i \in 1..Len(records) : records'[i] = records[i]
        /\ records'[Len(records) + 1].step = Len(trace) + 1
    BY <1>3, <2>1, RecordAdded DEF Complete
  <2>3. Len(records) = Len(trace) /\ \A i \in 1..Len(records) : records[i].step = i
    BY <2>1 DEF RecordsFollow
  <2>4. \A i \in 1..Len(records') : records'[i].step = i
    BY <2>1, <2>2, <2>3
  <2>5. DOMAIN records' = 1..Len(records')
    BY <1>a DEF TypeOK
  <2>6. \A i, j \in DOMAIN records' : ~(i < j /\ records'[i].step = records'[j].step)
    BY <2>4, <2>5
  <2> QED BY <2>6, OneRecordIsNext DEF OneRecord
<1>4. CASE Fail
  <2>1. /\ pc = "fail" /\ pc \in Running /\ history' = history
        /\ records' = Append(records, Record("failed"))
    BY <1>4 DEF Fail, StopWithError, Running
  <2>2. /\ Len(records') = Len(records) + 1
        /\ \A i \in 1..Len(records) : records'[i] = records[i]
        /\ records'[Len(records) + 1].step = Len(trace) + 1
        /\ records'[Len(records) + 1].status = "failed"
    BY <2>1, RecordAdded
  <2>3. /\ Len(records) = Len(history) /\ Len(records) \in Nat /\ Len(trace) \in Nat
        /\ \A i \in 1..Len(records) : records[i].step = i /\ records[i].status = "completed"
        /\ Len(history) # Len(trace) =>
             records[Len(records)].node = current /\ Unmatched(current, values)
    BY <2>1, Lengths, SequenceTypes DEF RecordsFollow
  <2>4. Len(history) = Len(trace) \/ Len(history) = Len(trace) + 1
    BY <2>1 DEF StepsAligned
  <2>6. DOMAIN records' = 1..(Len(records) + 1)
    BY <1>a, <2>2 DEF TypeOK
  <2> SUFFICES ASSUME NEW i \in DOMAIN records', NEW j \in DOMAIN records',
                      i < j, records'[i].step = records'[j].step
               PROVE  /\ records'[i].status = "completed" /\ records'[j].status = "failed"
                      /\ j = Len(records')
                      /\ Unmatched(records'[i].node, ValuesAt(history', records'[i].step))
    BY OneRecordIsNext DEF OneRecord
  <2>7. i \in 1..Len(records) /\ j = Len(records) + 1
    BY <2>2, <2>3, <2>6
  <2>8. i = Len(trace) + 1 /\ records'[i] = records[i] /\ records[i].step = i
    BY <2>2, <2>3, <2>7
  <2>9. i = Len(history) /\ i = Len(records) /\ Len(history) # Len(trace)
    BY <2>3, <2>4, <2>7, <2>8
  <2>10. ValuesAt(history', records'[i].step) = values
    BY <2>1, <2>8, <2>9 DEF ValuesCurrent
  <2>11. records'[i].node = current /\ Unmatched(current, values)
    BY <2>3, <2>8, <2>9
  <2>12. records'[i].status = "completed" /\ records'[j].status = "failed" /\ j = Len(records')
    BY <2>2, <2>3, <2>7, <2>8
  <2> QED BY <2>10, <2>11, <2>12
<1>5. CASE ~Complete /\ ~Fail
  <2>1. UNCHANGED <<records, history>>
    BY <1>5 DEF Next, vars, Dispatch, DispatchFails, StopWithError, Execute,
                ExecuteFails, CompleteFails, FailFails, Save, SaveFails
  <2> QED BY <1>2, <2>1
<1> QED BY <1>1, <1>3, <1>4, <1>5

LEMMA CallsStep ==
  ASSUME TypeOK, StepsAligned, CallsFollow, [Next]_vars
  PROVE  CallsFollow'
<1> USE DEF context
<1>a. CallsFollow' <=>
        (pc' \in Running =>
           /\ \A j \in 1..Len(calls') : calls'[j].step <= Len(trace') + 1
           /\ pc' = "complete" /\ current' \in Llm =>
                \E j \in 1..Len(calls') :
                  calls'[j] = [step |-> Len(trace') + 1, node |-> current', status |-> "completed"])
  BY DEF CallsFollow, Step
<1>1. CASE pc' \notin Running
  BY <1>1, <1>a
<1>2. CASE UNCHANGED <<calls, trace>> /\ pc \in Running /\ pc' # "complete"
  BY <1>2, <1>a DEF CallsFollow, Step
<1>3. ASSUME NEW status \in {"completed", "failed"}, pc = "execute", Called(status),
             UNCHANGED <<trace, current>>, pc' = "complete" => status = "completed"
      PROVE  CallsFollow'
  <2>1. current \in Nodes /\ Len(trace) + 1 \in Nat /\ pc \in Running
        /\ \A j \in 1..Len(calls) : calls[j].step <= Len(trace) + 1
    BY <1>3, RunningFacts DEF CallsFollow, Running, Step
  <2>2. CASE current \notin Llm
    BY <1>a, <1>3, <2>1, <2>2 DEF Called
  <2>3. CASE current \in Llm
    <3> DEFINE r == [step |-> Len(trace) + 1, node |-> current, status |-> status]
    <3>1. r \in CallRecord /\ r.step = Len(trace) + 1
      BY <2>1 DEF CallRecord
    <3>2. calls \in Seq(CallRecord) /\ calls' = Append(calls, r)
      BY <1>3, <2>3 DEF Called, TypeOK, Step
    <3>3. pc' = "complete" => r = [step |-> Len(trace) + 1, node |-> current, status |-> "completed"]
      BY <1>3
    <3> HIDE DEF r
    <3>4. /\ Len(calls') = Len(calls) + 1 /\ Len(calls) \in Nat
          /\ \A j \in 1..Len(calls) : calls'[j] = calls[j]
          /\ calls'[Len(calls) + 1] = r
      BY <3>1, <3>2, AppendProperties
    <3>5. \A j \in 1..Len(calls') : calls'[j].step <= Len(trace) + 1
      BY <2>1, <3>1, <3>4
    <3>6. Len(calls) + 1 \in 1..Len(calls')
      BY <3>4
    <3> QED BY <1>a, <1>3, <3>3, <3>4, <3>5, <3>6
  <2> QED BY <2>2, <2>3
<1>4. ASSUME NEW value \in Outputs, Execute(value) PROVE CallsFollow'
  BY <1>3, <1>4 DEF Execute
<1>5. CASE ExecuteFails
  <2>1. CASE Called("failed")
    <3>1. pc = "execute" /\ UNCHANGED <<trace, current>> /\ pc' = "fail"
      BY <1>5 DEF ExecuteFails
    <3> QED BY <1>3, <2>1, <3>1
  <2>2. CASE UNCHANGED calls
    <3>1. UNCHANGED <<calls, trace>> /\ pc \in Running /\ pc' # "complete"
      BY <1>5, <2>2 DEF ExecuteFails, Running
    <3> QED BY <1>2, <3>1
  <2> QED BY <1>5, <2>1, <2>2 DEF ExecuteFails
<1>6. CASE Complete
  <2>1. pc \in Running /\ calls' = calls /\ pc' # "complete" /\ Len(trace) \in Nat
    BY <1>6, Lengths DEF Complete, Running, Advance
  <2>2. CASE ~Unmatched(current, values') /\ Advance(values')
    <3>1. Len(trace') = Len(trace) + 1
      BY <2>1, <2>2, AdvanceEntry
    <3>2. \A j \in 1..Len(calls) : calls[j].step \in Nat
      BY SequenceTypes DEF CallRecord
    <3>3. \A j \in 1..Len(calls') : calls'[j].step <= Len(trace') + 1
      BY <2>1, <3>1, <3>2 DEF CallsFollow, Step
    <3> QED BY <1>a, <2>1, <3>3
  <2>3. CASE UNCHANGED trace
    BY <1>2, <2>1, <2>3
  <2> QED BY <1>6, <2>2, <2>3 DEF Complete
<1>7. CASE Dispatch \/ CompleteFails
  BY <1>2, <1>7 DEF Dispatch, CompleteFails, Running
<1>8. CASE DispatchFails \/ Fail \/ FailFails \/ Save \/ SaveFails
  BY <1>1, <1>8 DEF DispatchFails, Fail, StopWithError, FailFails, Save, SaveFails, Running
<1>9. CASE UNCHANGED vars
  BY <1>9, <1>a DEF vars, CallsFollow, Step
<1> QED BY <1>4, <1>5, <1>6, <1>7, <1>8, <1>9 DEF Next

LEMMA BackedIs ==
  TypeOK => (BackedByCall <=> \A i \in 1..Len(records) : CallBehind(records[i], calls))
  BY SequenceTypes DEF BackedByCall, CallBehind

\* A call that is behind a record stays behind it.
LEMMA CallStaysBehind ==
  ASSUME TypeOK, NEW r, CallBehind(r, calls), NEW e \in CallRecord
  PROVE  CallBehind(r, Append(calls, e))
<1>1. /\ Len(Append(calls, e)) = Len(calls) + 1 /\ Len(calls) \in Nat
      /\ \A j \in 1..Len(calls) : Append(calls, e)[j] = calls[j]
  BY AppendProperties DEF TypeOK
<1>2. \A j \in 1..Len(calls) : j \in 1..Len(Append(calls, e))
  BY <1>1
<1> QED BY <1>1, <1>2 DEF CallBehind

\* The record of a dispatch that ends has the call that Backed reports behind it.
LEMMA NewRecordBacked ==
  ASSUME TypeOK, StepsAligned, CallsFollow, pc \in Running,
         NEW status \in {"completed", "failed"}, status = "completed" => pc = "complete"
  PROVE  CallBehind(Record(status), calls)
<1> SUFFICES ASSUME Backed(current)
             PROVE  \E j \in 1..Len(calls) :
                      /\ calls[j].node = current /\ calls[j].status = "completed"
                      /\ IF status = "completed" THEN calls[j].step = Step ELSE calls[j].step <= Step
  BY DEF CallBehind, Record
<1>1. CASE status = "completed"
  <2>1. PICK j \in 1..Len(calls) :
          calls[j] = [step |-> Step, node |-> current, status |-> "completed"]
    BY <1>1 DEF CallsFollow, Backed
  <2> QED BY <1>1, <2>1
<1>2. CASE status # "completed"
  <2>1. PICK j \in 1..Len(calls) : calls[j].node = current /\ calls[j].status = "completed"
    BY LastCallIsCall DEF Backed
  <2>2. calls[j].step <= Step
    BY DEF CallsFollow
  <2> QED BY <1>2, <2>1, <2>2
<1> QED BY <1>1, <1>2

LEMMA BackedStep ==
  ASSUME TypeOK, StepsAligned, CallsFollow, BackedByCall, [Next]_vars
  PROVE  BackedByCall'
<1> USE DEF context
<1>a. \A i \in 1..Len(records) : CallBehind(records[i], calls)
  BY BackedIs
<1>b. SUFFICES \A i \in 1..Len(records') : CallBehind(records'[i], calls')
  <2>1. TypeOK'
    BY TypingStep
  <2>2. DOMAIN records' = 1..Len(records') /\ DOMAIN calls' = 1..Len(calls')
    BY <2>1 DEF TypeOK
  <2> QED BY <2>2 DEF BackedByCall, CallBehind
<1>1. CASE UNCHANGED <<records, calls>>
  BY <1>1, <1>a
<1>2. ASSUME NEW status \in {"completed", "failed"}, pc = "execute", Called(status),
             UNCHANGED records
      PROVE  \A i \in 1..Len(records') : CallBehind(records'[i], calls')
  <2>1. pc \in Running /\ current \in Nodes /\ Step \in Nat
    BY <1>2, RunningFacts DEF Running, Step
  <2>2. [step |-> Step, node |-> current, status |-> status] \in CallRecord
    BY <2>1 DEF CallRecord
  <2> QED BY <1>2, <1>a, <2>2, CallStaysBehind DEF Called
<1>3. ASSUME NEW status \in {"completed", "failed"}, pc \in Running,
             status = "completed" => pc = "complete",
             UNCHANGED calls, records' = Append(records, Record(status))
      PROVE  \A i \in 1..Len(records') : CallBehind(records'[i], calls')
  <2>1. /\ Len(records') = Len(records) + 1 /\ Len(records) \in Nat
        /\ \A i \in 1..Len(records) : records'[i] = records[i]
        /\ records'[Len(records) + 1] = Record(status)
    BY <1>3, RecordAdded, SequenceTypes
  <2>2. CallBehind(Record(status), calls)
    BY <1>3, NewRecordBacked
  <2>3. \A i \in 1..Len(records') : i \in 1..Len(records) \/ i = Len(records) + 1
    BY <2>1
  <2> QED BY <1>a, <1>3, <2>1, <2>2, <2>3
<1>4. ASSUME NEW value \in Outputs, Execute(value)
      PROVE  \A i \in 1..Len(records') : CallBehind(records'[i], calls')
  BY <1>2, <1>4 DEF Execute
<1>5. CASE ExecuteFails
  BY <1>1, <1>2, <1>5 DEF ExecuteFails
<1>6. CASE Complete
  BY <1>3, <1>6 DEF Complete, Running
<1>7. CASE Fail
  BY <1>3, <1>7 DEF Fail, StopWithError, Running
<1>8. CASE Dispatch \/ DispatchFails \/ CompleteFails \/ FailFails \/ Save \/ SaveFails
           \/ UNCHANGED vars
  BY <1>1, <1>8 DEF Dispatch, DispatchFails, StopWithError, CompleteFails, FailFails, Save,
                    SaveFails, vars
<1> QED BY <1>4, <1>5, <1>6, <1>7, <1>8 DEF Next

-----------------------------------------------------------------------------
(* The theorems.                                                           *)

IInv == TypeOK /\ StepsAligned /\ BoundedRun /\ TraceIsPath /\ ArtifactsProveTrace

LEMMA Invariance == Spec => []IInv
<1>1. Init => IInv
  <2>1. Init => trace = << >> /\ current = Start
    BY DEF Init
  <2>2. MaxIterations * N \in Nat
    BY GraphAssumption
  <2>3. trace = << >> /\ current = Start => BoundedRun /\ TraceIsPath /\ ArtifactsProveTrace
    BY <2>2 DEF BoundedRun, TraceIsPath, ArtifactsProveTrace
  <2> QED BY <2>1, <2>3, InitTyping, InitAligned DEF IInv
<1>2. IInv /\ [Next]_vars => IInv'
  BY TypingStep, AlignedStep, BoundStep, PathStep, ArtifactsStep DEF IInv
<1> QED BY <1>1, <1>2, PTL DEF Spec

\* Every part of a run's state keeps its type, for every template.
THEOREM Typing == Spec => []TypeOK
<1>1. IInv => TypeOK
  BY DEF IInv
<1> QED BY <1>1, Invariance, PTL

\* The trace of every run is a path from the start node, and maxIterations bounds its
\* length, whatever the executors answer (WorkflowRuntime.run, isBackEdge).
THEOREM BoundedPath == Spec => []PathIsBounded
<1>1. IInv => PathIsBounded
  BY DEF IInv, PathIsBounded
<1> QED BY <1>1, Invariance, PTL

\* "No trace, no agent": at every moment, crashes included, what the trace says
\* of a dispatch is on disk (SubAgentDispatcher, WorkflowRuntime.createTrace).
THEOREM ArtifactsBackTrace == Spec => []ArtifactsProveTrace
<1>1. IInv => ArtifactsProveTrace
  BY DEF IInv
<1> QED BY <1>1, Invariance, PTL

\* What the history, the records and the calls add to that invariant: it explains
\* the routes and the records.
Explains ==
  /\ ValuesCurrent /\ RoutesExplained
  /\ RecordsFollow /\ OneRecordPerDispatch
  /\ CallsFollow /\ BackedByCall

LEMMA Explanation == Spec => []Explains
<1>1. Init => Explains
  <2> SUFFICES ASSUME Init PROVE Explains
    OBVIOUS
  <2>1. /\ trace = << >> /\ history = << >> /\ records = << >> /\ calls = << >>
        /\ pc = "dispatch" /\ values = [k \in Keys |-> Null]
    BY DEF Init
  <2>2. RoutesExplained /\ OneRecordPerDispatch /\ BackedByCall
    BY <2>1 DEF RoutesExplained, OneRecordPerDispatch, BackedByCall
  <2>3. RecordsFollow /\ CallsFollow
    BY <2>1 DEF RecordsFollow, CallsFollow
  <2>4. ValuesCurrent
    <3>1. \A k : Writers(history, Len(history), k) = {}
      BY <2>1 DEF Writers
    <3> QED BY <2>1, <3>1, Zenon DEF ValuesCurrent, ValuesAt, OutputAt
  <2> QED BY <2>2, <2>3, <2>4 DEF Explains
<1>2. IInv /\ Explains /\ [Next]_vars => Explains'
  BY CurrentStep, RoutesStep, RecordsStep, OneRecordStep, CallsStep, BackedStep DEF IInv, Explains
<1> QED BY <1>1, <1>2, Invariance, PTL DEF Spec

\* The outputs in the history alone explain every edge of every run, and
\* maxIterations ends a run only in place of a back edge (WorkflowGraph.resolveNextNode,
\* WorkflowRuntime.run).
THEOREM Deterministic == Spec => []RoutesExplained
<1>1. Explains => RoutesExplained
  BY DEF Explains
<1> QED BY <1>1, Explanation, PTL

\* "No LLM call record, no LLM-backed agent", and a step has two dispatch records only
\* where no edge matched its output (SubAgentDispatcher, WorkflowRuntime.run).
THEOREM DispatchesBacked == Spec => []DispatchesExplained
<1>1. Explains => DispatchesExplained
  BY DEF Explains, DispatchesExplained
<1> QED BY <1>1, Explanation, PTL

\* A run is at most one step ahead of its trace (WorkflowRuntime.run).
THEOREM Aligned == Spec => []StepsAligned
<1>1. IInv => StepsAligned
  BY DEF IInv
<1> QED BY <1>1, Invariance, PTL
=============================================================================
