--------------------- MODULE CodeChangeExecution_proofs ---------------------
(***************************************************************************)
(* Proofs about CodeChangeExecution.                                       *)
(***************************************************************************)
EXTENDS CodeChangeExecution, NaturalOrder, SequenceTheorems, TLAPS

-----------------------------------------------------------------------------
(* The records.                                                            *)

\* A consumed record has a rollback guide and is not a blocked one.
LEMMA ConsumedRecords ==
  ASSUME NEW result, result # Missing => result.artifacts \subseteq Files,
         NEW status \in {"executed", "failed"}, NEW report \in {Unset, "pass", "fail"}
  PROVE  LET recorded == ConsumedRecord(status, result, report) IN
           /\ recorded \in Records
           /\ recorded.consumed /\ recorded.status = status
           /\ recorded.guide # Unset
<1>1. GuideFor(result) \in Guides
  BY DEF GuideFor, Guides
<1>2. GuideFor(result) # Unset
  BY <1>1, ExecutionAssumption
<1>. QED
  BY <1>1, <1>2 DEF ConsumedRecord, Records

LEMMA BlockedRecords ==
  /\ BlockedRecord \in Records /\ ~BlockedRecord.consumed
  /\ BlockedRecord.status = "blocked" /\ BlockedRecord.guide = Unset
BY DEF BlockedRecord, Records

-----------------------------------------------------------------------------
(* Typing.                                                                 *)

LEMMA TypeInit == Init => TypeOK
<1>. SUFFICES ASSUME Init PROVE TypeOK
  OBVIOUS
<1>1. ControlTypes
  BY DEF Init, ControlTypes, Executing
<1>2. SharedTypes
  <2>1. DOMAIN commit = Files /\ DOMAIN work = Files
    <3>1. commit \in Commits \union Workspaces /\ work \in Commits \union Workspaces
      BY DEF Init
    <3>. QED
      BY <3>1, ExecutionAssumption
  <2>2. faults \in 0..MaxFaults /\ edits \in 0..MaxEdits
    BY ExecutionAssumption DEF Init
  <2>. QED
    BY <2>1, <2>2 DEF Init, SharedTypes
<1>3. ResultTypes
  <2>1. \A r \in Runs : code[r] = Missing
    BY DEF Init
  <2>. QED
    BY <2>1 DEF Init, ResultTypes
<1>4. SavedTypes
  BY DEF Init, SavedTypes, Disks
<1>. QED
  BY <1>1, <1>2, <1>3, <1>4 DEF TypeOK

LEMMA TypeStart == ASSUME TypeOK, NEW r \in Runs, Start(r) PROVE TypeOK'
<1>1. PICK p \in Plans \union {NoPlan} :
        /\ plan' = [plan EXCEPT ![r] = p]
        /\ \/ /\ Executable(p)
              /\ todo' = [todo EXCEPT ![r] = p.ops]
              /\ pc' = [pc EXCEPT ![r] = "checkpoint"]
              /\ UNCHANGED record
           \/ /\ ~Executable(p)
              /\ record' = [record EXCEPT ![r] = BlockedRecord]
              /\ pc' = [pc EXCEPT ![r] = "record"]
              /\ UNCHANGED todo
  BY DEF Start
<1>2. UNCHANGED <<approval, outside, files, missed, before, written, trouble, code, test, retried, disk, log,
                 faults, edits>>
  BY DEF Start
<1>3. Executable(p) => p.ops \in Seq(Operations)
  BY ExecutionAssumption DEF Executable
<1>4. ControlTypes'
  <2>1. plan' \in [Runs -> Plans \union {NoPlan}]
    BY <1>1 DEF TypeOK, ControlTypes
  <2>2. CASE Executable(p)
    BY <1>1, <1>3, <2>1, <2>2 DEF TypeOK, ControlTypes, Executing
  <2>3. CASE ~Executable(p)
    BY <1>1, <2>1, <2>3 DEF TypeOK, ControlTypes, Saving
  <2>. QED
    BY <2>2, <2>3
<1>5. SharedTypes'
  BY <1>2 DEF TypeOK, SharedTypes, outside, files
<1>6. ResultTypes'
  BY <1>2 DEF TypeOK, ResultTypes, files
<1>7. SavedTypes'
  BY <1>1, <1>2, BlockedRecords DEF TypeOK, SavedTypes
<1>. QED
  BY <1>4, <1>5, <1>6, <1>7 DEF TypeOK

LEMMA FaultCounted ==
  ASSUME TypeOK, Fault PROVE faults' \in 0..MaxFaults
BY ExecutionAssumption DEF TypeOK, SharedTypes, Fault

LEMMA TypeCheckpoint == ASSUME TypeOK, NEW r \in Runs, Checkpoint(r) PROVE TypeOK'
<1>1. ControlTypes'
  BY DEF Checkpoint, TypeOK, ControlTypes, Executing
<1>2. SharedTypes'
  <2>1. faults' \in 0..MaxFaults
    BY FaultCounted DEF Checkpoint, TypeOK, SharedTypes
  <2>. QED
    BY <2>1 DEF Checkpoint, TypeOK, SharedTypes, outside, files
<1>3. ResultTypes'
  <2>1. Differing \subseteq Files
    BY DEF Differing
  <2>. QED
    BY <2>1 DEF Checkpoint, TypeOK, ResultTypes, files
<1>4. SavedTypes'
  BY DEF Checkpoint, TypeOK, SavedTypes
<1>. QED
  BY <1>1, <1>2, <1>3, <1>4 DEF TypeOK

\* What the operation at the head of the list is.
LEMMA Heads ==
  ASSUME TypeOK, NEW r \in Runs, todo[r] # << >>
  PROVE  /\ Head(todo[r]) \in Operations /\ Tail(todo[r]) \in Seq(Operations)
         /\ Head(todo[r]).file \in Files
<1>1. Head(todo[r]) \in Operations /\ Tail(todo[r]) \in Seq(Operations)
  BY DEF TypeOK, ControlTypes
<1>. QED
  BY <1>1 DEF Operations

\* A look at the head of the list takes it off, or goes on to its write.
LEMMA StatOutcome ==
  ASSUME NEW r \in Runs, Stat(r)
  PROVE  /\ pc[r] = "stat" /\ todo[r] # << >>
         /\ \/ /\ todo' = [todo EXCEPT ![r] = Tail(@)]
               /\ trouble' = [trouble EXCEPT ![r] = @ \union {"refused"}]
               /\ UNCHANGED <<pc, missed, faults>>
            \/ /\ ~(Head(todo[r]).kind = "create" /\ work[Head(todo[r]).file] # Absent)
               /\ pc' = [pc EXCEPT ![r] = "write"]
               /\ UNCHANGED <<todo, trouble, missed, faults>>
            \/ /\ pc' = [pc EXCEPT ![r] = "write"]
               /\ Fault /\ missed' = [missed EXCEPT ![r] = @ \union {Head(todo[r]).file}]
               /\ UNCHANGED <<todo, trouble>>
         /\ UNCHANGED <<approval, outside, files, plan, before, written, code, test, record, retried,
                        disk, log, edits>>
BY DEF Stat, StatThrows

LEMMA TypeStat == ASSUME TypeOK, NEW r \in Runs, Stat(r) PROVE TypeOK'
<1>0. Tail(todo[r]) \in Seq(Operations) /\ Head(todo[r]).file \in Files
  BY Heads DEF Stat
<1>1. ControlTypes'
  <2>1. CASE todo' = [todo EXCEPT ![r] = Tail(@)] /\ UNCHANGED <<pc, plan>> /\ pc[r] = "stat"
    BY <1>0, <2>1 DEF TypeOK, ControlTypes
  <2>2. CASE pc' = [pc EXCEPT ![r] = "write"] /\ UNCHANGED <<todo, plan>> /\ todo[r] # << >>
    BY <2>2 DEF TypeOK, ControlTypes, Executing
  <2>. QED
    BY <2>1, <2>2, StatOutcome
<1>2. SharedTypes'
  <2>1. faults' \in 0..MaxFaults
    BY StatOutcome, FaultCounted DEF TypeOK, SharedTypes
  <2>. QED
    BY <2>1, StatOutcome DEF TypeOK, SharedTypes, outside, files
<1>3. ResultTypes'
  <2>1. /\ trouble' = trouble \/ trouble' = [trouble EXCEPT ![r] = @ \union {"refused"}]
        /\ missed' = missed \/ missed' = [missed EXCEPT ![r] = @ \union {Head(todo[r]).file}]
        /\ UNCHANGED <<before, written, touched, latest, code, test>>
    BY StatOutcome DEF files
  <2>2. missed' \in [Runs -> SUBSET Files]
    BY <1>0, <2>1 DEF TypeOK, ResultTypes
  <2>. QED
    BY <2>1, <2>2 DEF TypeOK, ResultTypes
<1>4. SavedTypes'
  BY DEF Stat, TypeOK, SavedTypes
<1>. QED
  BY <1>1, <1>2, <1>3, <1>4 DEF TypeOK

LEMMA TypeWrite == ASSUME TypeOK, NEW r \in Runs, Write(r) PROVE TypeOK'
<1>0. todo[r] # << >>
  BY DEF Write, TypeOK, ControlTypes
<1>1. Tail(todo[r]) \in Seq(Operations) /\ Head(todo[r]).file \in Files
  BY <1>0, Heads
<1>2. ControlTypes'
  BY <1>1 DEF Write, TypeOK, ControlTypes, Executing
<1>3. SharedTypes'
  BY <1>1 DEF Write, TypeOK, SharedTypes, outside
<1>4. ResultTypes'
  BY <1>1 DEF Write, Touch, TypeOK, ResultTypes
<1>5. SavedTypes'
  BY DEF Write, TypeOK, SavedTypes
<1>. QED
  BY <1>2, <1>3, <1>4, <1>5 DEF TypeOK

LEMMA TypeWriteFails == ASSUME TypeOK, NEW r \in Runs, WriteFails(r) PROVE TypeOK'
<1>0. todo[r] # << >>
  BY DEF WriteFails, TypeOK, ControlTypes
<1>1. Tail(todo[r]) \in Seq(Operations) /\ Head(todo[r]).file \in Files
  BY <1>0, Heads
<1>2. ControlTypes'
  BY <1>1 DEF WriteFails, TypeOK, ControlTypes, Executing
<1>3. SharedTypes'
  <2>1. faults' \in 0..MaxFaults
    BY FaultCounted DEF WriteFails
  <2>2. DOMAIN work' = Files
    BY DEF WriteFails, TypeOK, SharedTypes, files
  <2>. QED
    BY <2>1, <2>2 DEF WriteFails, TypeOK, SharedTypes, outside
<1>4. ResultTypes'
  <2>1. touched' \in [Runs -> SUBSET Files] /\ latest' \in [Runs -> SUBSET Files]
    BY <1>1 DEF WriteFails, Touch, TypeOK, ResultTypes, files
  <2>. QED
    BY <2>1 DEF WriteFails, TypeOK, ResultTypes
<1>5. SavedTypes'
  BY DEF WriteFails, TypeOK, SavedTypes
<1>. QED
  BY <1>2, <1>3, <1>4, <1>5 DEF TypeOK

LEMMA TypeDiff == ASSUME TypeOK, NEW r \in Runs, Diff(r) PROVE TypeOK'
<1>. DEFINE own == Differing \ before[r]
            tooMany == Cardinality(own) > Max({1, Cardinality(plan[r].targets)})
            status == IF trouble[r] # {} \/ tooMany THEN "failed" ELSE "success"
            result == [status |-> status, refused |-> "refused" \in trouble[r],
                       byExecutor |-> own, changed |-> Differing, deleted |-> Deleted,
                       patch |-> Preview, artifacts |-> written[r] \union own]
<1>1. /\ code' = [code EXCEPT ![r] = result] /\ result.artifacts = written[r] \union own
      /\ pc' = [pc EXCEPT ![r] = "test"]
  BY Zenon DEF Diff
<1>2. result.artifacts \subseteq Files
  BY <1>1 DEF TypeOK, ResultTypes, Differing
<1>. HIDE DEF result
<1>3. UNCHANGED <<approval, outside, files, plan, missed, todo, before, written, trouble, test, record,
                 retried, disk, log, faults, edits>>
  BY DEF Diff
<1>4. ControlTypes'
  BY <1>1, <1>3 DEF TypeOK, ControlTypes, Executing
<1>5. SharedTypes'
  BY <1>3 DEF TypeOK, SharedTypes, outside, files
<1>6. ResultTypes'
  BY <1>1, <1>2, <1>3 DEF TypeOK, ResultTypes, files
<1>7. SavedTypes'
  BY <1>3 DEF TypeOK, SavedTypes
<1>. QED
  BY <1>4, <1>5, <1>6, <1>7 DEF TypeOK

\* The catch block, whatever threw.
LEMMA TypeCaught ==
  ASSUME TypeOK, NEW r \in Runs, NEW result, NEW report \in {Unset, "pass", "fail"},
         result # Missing => result.artifacts \subseteq Files,
         Caught(r, result, report), faults' \in 0..MaxFaults, disk' \in [Runs -> Disks],
         UNCHANGED <<outside, files, plan, missed, todo, before, written, trouble, code, test, log, edits>>
  PROVE  TypeOK'
<1>1. ConsumedRecord("failed", result, report) \in Records
  BY ConsumedRecords
<1>2. ControlTypes'
  BY DEF Caught, TypeOK, ControlTypes, Saving
<1>3. SharedTypes'
  BY DEF Caught, TypeOK, SharedTypes, outside, files
<1>4. ResultTypes'
  BY DEF TypeOK, ResultTypes, files
<1>5. SavedTypes'
  BY <1>1 DEF Caught, TypeOK, SavedTypes
<1>. QED
  BY <1>2, <1>3, <1>4, <1>5 DEF TypeOK

LEMMA TypeDiffFails == ASSUME TypeOK, NEW r \in Runs, DiffFails(r) PROVE TypeOK'
<1>1. faults' \in 0..MaxFaults
  BY FaultCounted DEF DiffFails, TypeOK, SharedTypes
<1>2. disk' \in [Runs -> Disks]
  BY DEF DiffFails, TypeOK, SavedTypes
<1>3. /\ Caught(r, Missing, Unset)
      /\ UNCHANGED <<outside, files, plan, missed, todo, before, written, trouble, code, test, log, edits>>
  BY DEF DiffFails
<1>. QED
  BY <1>1, <1>2, <1>3, TypeCaught

LEMMA TypeTestFails == ASSUME TypeOK, NEW r \in Runs, TestFails(r) PROVE TypeOK'
<1>1. faults' \in 0..MaxFaults
  BY FaultCounted DEF TestFails, TypeOK, SharedTypes
<1>2. disk' \in [Runs -> Disks]
  BY DEF TestFails, TypeOK, SavedTypes
<1>3. /\ Caught(r, code[r], Unset)
      /\ UNCHANGED <<outside, files, plan, missed, todo, before, written, trouble, code, test, log, edits>>
  BY DEF TestFails
<1>4. code[r] # Missing => code[r].artifacts \subseteq Files
  BY DEF TypeOK, ResultTypes
<1>. QED
  BY <1>1, <1>2, <1>3, <1>4, TypeCaught

LEMMA TypeTest ==
  ASSUME TypeOK, NEW r \in Runs, NEW result \in {"passed", "failed"}, Test(r, result)
  PROVE  TypeOK'
<1>1. code[r] # Missing => code[r].artifacts \subseteq Files
  BY DEF TypeOK, ResultTypes
<1>2. /\ ConsumedRecord("executed", code[r], "pass") \in Records
      /\ ConsumedRecord("failed", code[r], "fail") \in Records
  BY <1>1, ConsumedRecords
<1>3. ControlTypes'
  BY DEF Test, TypeOK, ControlTypes, Saving
<1>4. SharedTypes'
  BY DEF Test, TypeOK, SharedTypes, outside, files
<1>5. ResultTypes'
  BY DEF Test, TypeOK, ResultTypes, files
<1>6. SavedTypes'
  <2>1. record' \in [Runs -> Records \union {NoRecord}]
    BY <1>2 DEF Test, TypeOK, SavedTypes
  <2>. QED
    BY <2>1 DEF Test, TypeOK, SavedTypes
<1>. QED
  BY <1>3, <1>4, <1>5, <1>6 DEF TypeOK

\* A step of save changes one of the files of one run.
LEMMA TypeDisk ==
  ASSUME TypeOK, NEW r \in Runs, NEW x \in Records \union {NoRecord, TornRecord},
         NEW g \in Guides \union {Unset, Torn}
  PROVE  /\ [disk EXCEPT ![r].record = x] \in [Runs -> Disks]
         /\ [disk EXCEPT ![r].guide = g] \in [Runs -> Disks]
<1>1. disk \in [Runs -> Disks] /\ disk[r] \in Disks
  BY DEF TypeOK, SavedTypes
<1>2. [disk[r] EXCEPT !.record = x] \in Disks
  BY <1>1 DEF Disks
<1>3. [disk[r] EXCEPT !.guide = g] \in Disks
  BY <1>1 DEF Disks
<1>. QED
  BY <1>1, <1>2, <1>3

LEMMA TypeSaveRecord ==
  ASSUME TypeOK, NEW r \in Runs, SaveRecord(r), record[r] \in Records
  PROVE  TypeOK'
<1>1. disk' \in [Runs -> Disks]
  BY TypeDisk DEF SaveRecord
<1>2. ControlTypes'
  BY DEF SaveRecord, TypeOK, ControlTypes, Saving, locals
<1>3. SharedTypes'
  BY DEF SaveRecord, TypeOK, SharedTypes, outside, files
<1>4. ResultTypes'
  BY DEF SaveRecord, TypeOK, ResultTypes, files, locals
<1>5. SavedTypes'
  BY <1>1 DEF SaveRecord, TypeOK, SavedTypes, locals
<1>. QED
  BY <1>2, <1>3, <1>4, <1>5 DEF TypeOK

LEMMA TypeSaveGuide ==
  ASSUME TypeOK, NEW r \in Runs, SaveGuide(r), record[r] \in Records
  PROVE  TypeOK'
<1>0. record[r].guide \in Guides \union {Unset}
  BY DEF Records
<1>1. disk' \in [Runs -> Disks]
  BY <1>0, TypeDisk DEF SaveGuide
<1>2. ControlTypes'
  BY DEF SaveGuide, TypeOK, ControlTypes, Saving, locals
<1>3. SharedTypes'
  BY DEF SaveGuide, TypeOK, SharedTypes, outside, files
<1>4. ResultTypes'
  BY DEF SaveGuide, TypeOK, ResultTypes, files, locals
<1>5. SavedTypes'
  BY <1>1 DEF SaveGuide, TypeOK, SavedTypes, locals
<1>. QED
  BY <1>2, <1>3, <1>4, <1>5 DEF TypeOK

LEMMA TypeAppendLog ==
  ASSUME TypeOK, NEW r \in Runs, AppendLog(r), record[r] \in Records
  PROVE  TypeOK'
<1>0. [run |-> r, status |-> record[r].status] \in LogLines
  BY DEF Records, LogLines
<1>1. log' \in Seq(LogLines)
  BY <1>0, AppendProperties DEF AppendLog, TypeOK, SavedTypes
<1>2. ControlTypes'
  BY DEF AppendLog, TypeOK, ControlTypes, locals
<1>3. SharedTypes'
  BY DEF AppendLog, TypeOK, SharedTypes, outside, files
<1>4. ResultTypes'
  BY DEF AppendLog, TypeOK, ResultTypes, files, locals
<1>5. SavedTypes'
  BY <1>1 DEF AppendLog, TypeOK, SavedTypes, locals
<1>. QED
  BY <1>2, <1>3, <1>4, <1>5 DEF TypeOK

LEMMA TypeSaveFails ==
  ASSUME TypeOK, NEW r \in Runs, SaveFails(r), record[r] \in Records
  PROVE  TypeOK'
<1>1. faults' \in 0..MaxFaults
  BY FaultCounted DEF SaveFails
<1>2. disk' \in [Runs -> Disks]
  <2>1. disk \in [Runs -> Disks]
    BY DEF TypeOK, SavedTypes
  <2>2. \/ UNCHANGED disk
        \/ disk' = [disk EXCEPT ![r].record = TornRecord]
        \/ disk' = [disk EXCEPT ![r].guide = Torn]
    BY DEF SaveFails
  <2>3. /\ [disk EXCEPT ![r].record = TornRecord] \in [Runs -> Disks]
        /\ [disk EXCEPT ![r].guide = Torn] \in [Runs -> Disks]
    <3>1. TornRecord \in Records \union {NoRecord, TornRecord} /\ Torn \in Guides \union {Unset, Torn}
          /\ NoRecord \in Records \union {NoRecord, TornRecord}
      OBVIOUS
    <3>. QED
      BY <3>1, TypeDisk
  <2>. QED
    BY <2>1, <2>2, <2>3
<1>3. UNCHANGED <<outside, files, plan, missed, todo, before, written, trouble, code, test, log, edits>>
  BY DEF SaveFails
<1>4. CASE record[r].consumed /\ ~retried[r]
  <2>1. Caught(r, code[r], record[r].report)
    BY <1>4 DEF SaveFails
  <2>2. record[r].report \in {Unset, "pass", "fail"}
    BY DEF Records
  <2>3. code[r] # Missing => code[r].artifacts \subseteq Files
    BY DEF TypeOK, ResultTypes
  <2>. QED
    BY <1>1, <1>2, <1>3, <2>1, <2>2, <2>3, TypeCaught
<1>5. CASE ~(record[r].consumed /\ ~retried[r])
  <2>1. pc' = [pc EXCEPT ![r] = "threw"] /\ UNCHANGED <<approval, record, retried>>
    BY <1>5 DEF SaveFails
  <2>2. ControlTypes'
    BY <1>3, <2>1 DEF TypeOK, ControlTypes
  <2>3. SharedTypes'
    BY <1>1, <1>3, <2>1 DEF TypeOK, SharedTypes, outside, files
  <2>4. ResultTypes'
    BY <1>3 DEF TypeOK, ResultTypes, files
  <2>5. SavedTypes'
    BY <1>2, <1>3, <2>1 DEF TypeOK, SavedTypes
  <2>. QED
    BY <2>2, <2>3, <2>4, <2>5 DEF TypeOK
<1>. QED
  BY <1>4, <1>5

LEMMA TypeEdit == ASSUME TypeOK, NEW f \in Files, Edit(f) PROVE TypeOK'
<1>1. edits' \in 0..MaxEdits /\ DOMAIN work' = Files
  BY ExecutionAssumption DEF Edit, TypeOK, SharedTypes
<1>2. ControlTypes'
  BY DEF Edit, TypeOK, ControlTypes, locals
<1>3. SharedTypes'
  BY <1>1 DEF Edit, TypeOK, SharedTypes, outside
<1>4. ResultTypes'
  BY DEF Edit, TypeOK, ResultTypes, locals
<1>5. SavedTypes'
  BY DEF Edit, TypeOK, SavedTypes, locals
<1>. QED
  BY <1>2, <1>3, <1>4, <1>5 DEF TypeOK

LEMMA TypeExpire == ASSUME TypeOK, Expire PROVE TypeOK'
<1>2. ControlTypes'
  BY DEF Expire, TypeOK, ControlTypes, locals
<1>3. SharedTypes'
  BY DEF Expire, TypeOK, SharedTypes, files
<1>4. ResultTypes'
  BY DEF Expire, TypeOK, ResultTypes, files, locals
<1>5. SavedTypes'
  BY DEF Expire, TypeOK, SavedTypes, locals
<1>. QED
  BY <1>2, <1>3, <1>4, <1>5 DEF TypeOK

LEMMA TypeStutter == ASSUME TypeOK, UNCHANGED vars PROVE TypeOK'
BY DEF vars, outside, files, locals, TypeOK, ControlTypes, SharedTypes, ResultTypes, SavedTypes

-----------------------------------------------------------------------------
(* A step of one run leaves the other runs' state.                         *)

Same(r) ==
  /\ pc[r]' = pc[r] /\ record[r]' = record[r] /\ disk[r]' = disk[r]
  /\ todo[r]' = todo[r] /\ touched[r]' = touched[r] /\ missed[r]' = missed[r]

LEMMA StepIsLocal ==
  ASSUME TypeOK, NEW r \in Runs, NEW s \in Runs \ {r}, Start(s) \/ Step(s)
  PROVE  Same(r)
<1>0. /\ r \in DOMAIN pc /\ r \in DOMAIN record /\ r \in DOMAIN disk /\ r \in DOMAIN todo
      /\ r \in DOMAIN touched /\ r \in DOMAIN missed
  BY DEF TypeOK, ControlTypes, ResultTypes, SavedTypes
<1>1. CASE Start(s)
  BY <1>0, <1>1 DEF Start, Same, files
<1>2. CASE Checkpoint(s)
  BY <1>0, <1>2 DEF Checkpoint, Same, files
<1>3. CASE Stat(s)
  BY <1>0, <1>3, StatOutcome DEF Same, files
<1>4. CASE Write(s)
  BY <1>0, <1>4 DEF Write, Touch, Same
<1>5. CASE WriteFails(s)
  BY <1>0, <1>5 DEF WriteFails, Touch, Same, files
<1>6. CASE Diff(s)
  BY <1>0, <1>6 DEF Diff, Same, files
<1>7. CASE DiffFails(s)
  BY <1>0, <1>7 DEF DiffFails, Caught, Same, files
<1>8. ASSUME NEW result \in {"passed", "failed"}, Test(s, result) PROVE Same(r)
  BY <1>0, <1>8 DEF Test, Same, files
<1>9. CASE TestFails(s)
  BY <1>0, <1>9 DEF TestFails, Caught, Same, files
<1>10. CASE SaveRecord(s)
  BY <1>0, <1>10 DEF SaveRecord, Same, files, locals
<1>11. CASE SaveGuide(s)
  BY <1>0, <1>11 DEF SaveGuide, Same, files, locals
<1>12. CASE AppendLog(s)
  BY <1>0, <1>12 DEF AppendLog, Same, files, locals
<1>13. CASE SaveFails(s)
  BY <1>0, <1>13 DEF SaveFails, Caught, Same, files
<1>. QED
  BY <1>1, <1>2, <1>3, <1>4, <1>5, <1>6, <1>7, <1>8, <1>9, <1>10, <1>11, <1>12, <1>13 DEF Step

-----------------------------------------------------------------------------
(* What a run has saved is what it holds.                                  *)

\* The record a run persists, from the moment it has one.
RecordHeld(r) ==
  pc[r] \in Saving \union {"returned"} =>
    /\ record[r] \in Records
    /\ record[r].consumed <=> record[r].guide # Unset

\* Its files follow one after the other, also when a failed save starts over.
FilesFollow(r) ==
  /\ pc[r] \in {"guide", "log", "returned"} => disk[r].record = record[r]
  /\ pc[r] \in {"log", "returned"} /\ record[r].guide # Unset => disk[r].guide = record[r].guide

\* The log line comes last, and there is one of each run at most.
LoggedLast(r) ==
  /\ pc[r] # "returned" => \A j \in DOMAIN log : log[j].run # r
  /\ pc[r] = "returned" =>
       \E i \in DOMAIN log : /\ log[i] = [run |-> r, status |-> record[r].status]
                             /\ \A j \in DOMAIN log : log[j].run = r => j <= i

SavedInOrder == \A r \in Runs : RecordHeld(r) /\ FilesFollow(r) /\ LoggedLast(r)

LEMMA SavedInit == Init => SavedInOrder
BY DEF Init, SavedInOrder, RecordHeld, FilesFollow, LoggedLast, Saving

\* A run is saved as far as it was while its own record, files and lines stay.
LEMMA SavedFrame ==
  ASSUME NEW r \in Runs, RecordHeld(r), FilesFollow(r), LoggedLast(r),
         pc[r]' = pc[r], record[r]' = record[r], disk[r]' = disk[r], log' = log
  PROVE  RecordHeld(r)' /\ FilesFollow(r)' /\ LoggedLast(r)'
BY DEF RecordHeld, FilesFollow, LoggedLast

\* A step of run r before it has a record.
LEMMA SavedExecuting ==
  ASSUME NEW r \in Runs, pc[r] # "returned", LoggedLast(r), log' = log,
         pc[r]' \notin Saving \union {"returned"}
  PROVE  RecordHeld(r)' /\ FilesFollow(r)' /\ LoggedLast(r)'
BY DEF RecordHeld, FilesFollow, LoggedLast, Saving

\* The step in which run r gets its record.
LEMMA SavedRecorded ==
  ASSUME NEW r \in Runs, pc[r] # "returned", LoggedLast(r), log' = log, pc[r]' = "record",
         record[r]' \in Records, record[r]'.consumed <=> record[r]'.guide # Unset
  PROVE  RecordHeld(r)' /\ FilesFollow(r)' /\ LoggedLast(r)'
BY DEF RecordHeld, FilesFollow, LoggedLast, Saving

\* The catch block gives run r a new record.
LEMMA SavedCaught ==
  ASSUME TypeOK, NEW r \in Runs, NEW result, NEW report \in {Unset, "pass", "fail"},
         result # Missing => result.artifacts \subseteq Files,
         pc[r] # "returned", LoggedLast(r), log' = log, Caught(r, result, report)
  PROVE  RecordHeld(r)' /\ FilesFollow(r)' /\ LoggedLast(r)'
<1>1. pc[r]' = "record" /\ record[r]' = ConsumedRecord("failed", result, report)
  BY DEF Caught, TypeOK, ControlTypes, SavedTypes
<1>2. /\ ConsumedRecord("failed", result, report) \in Records
      /\ ConsumedRecord("failed", result, report).consumed
      /\ ConsumedRecord("failed", result, report).guide # Unset
  BY ConsumedRecords
<1>. QED
  BY <1>1, <1>2, SavedRecorded

\* Every step of run r keeps the order for r ...
LEMMA SavedOwnStep ==
  ASSUME TypeOK, NEW r \in Runs, RecordHeld(r), FilesFollow(r), LoggedLast(r),
         Start(r) \/ Step(r)
  PROVE  RecordHeld(r)' /\ FilesFollow(r)' /\ LoggedLast(r)'
<1>0. code[r] # Missing => code[r].artifacts \subseteq Files
  BY DEF TypeOK, ResultTypes
<1>1. CASE Start(r)
  <2>1. pc[r] = "idle" /\ log' = log
    BY <1>1 DEF Start
  <2>2. \/ pc' = [pc EXCEPT ![r] = "checkpoint"]
        \/ /\ record' = [record EXCEPT ![r] = BlockedRecord]
           /\ pc' = [pc EXCEPT ![r] = "record"]
    BY <1>1 DEF Start
  <2>3. CASE pc' = [pc EXCEPT ![r] = "checkpoint"]
    <3>1. pc[r]' = "checkpoint"
      BY <2>3 DEF TypeOK, ControlTypes
    <3>. QED
      BY <2>1, <3>1, SavedExecuting DEF Saving
  <2>4. CASE /\ record' = [record EXCEPT ![r] = BlockedRecord]
             /\ pc' = [pc EXCEPT ![r] = "record"]
    <3>1. pc[r]' = "record" /\ record[r]' = BlockedRecord
      BY <2>4 DEF TypeOK, ControlTypes, SavedTypes
    <3>. QED
      BY <2>1, <3>1, SavedRecorded, BlockedRecords
  <2>. QED
    BY <2>2, <2>3, <2>4
<1>2. CASE Checkpoint(r) \/ Stat(r) \/ Write(r) \/ WriteFails(r) \/ Diff(r)
  <2>1. pc[r] \in {"checkpoint", "stat", "write"} /\ log' = log
    BY <1>2 DEF Checkpoint, Stat, Write, WriteFails, Diff
  <2>2. pc' = pc \/ \E next \in {"stat", "write", "test"} : pc' = [pc EXCEPT ![r] = next]
    BY <1>2 DEF Checkpoint, Stat, Write, WriteFails, Diff
  <2>3. pc[r]' \in {"checkpoint", "stat", "write", "test"}
    BY <2>1, <2>2 DEF TypeOK, ControlTypes
  <2>. QED
    BY <2>1, <2>3, SavedExecuting DEF Saving
<1>3. CASE DiffFails(r)
  <2>1. pc[r] # "returned" /\ log' = log /\ Caught(r, Missing, Unset)
    BY <1>3 DEF DiffFails
  <2>. QED
    BY <2>1, SavedCaught
<1>4. CASE TestFails(r)
  <2>1. pc[r] # "returned" /\ log' = log /\ Caught(r, code[r], Unset)
    BY <1>4 DEF TestFails
  <2>. QED
    BY <1>0, <2>1, SavedCaught
<1>5. ASSUME NEW result \in {"passed", "failed"}, Test(r, result)
      PROVE  RecordHeld(r)' /\ FilesFollow(r)' /\ LoggedLast(r)'
  <2>1. pc[r] # "returned" /\ log' = log /\ pc[r]' = "record"
    BY <1>5 DEF Test, TypeOK, ControlTypes
  <2>2. \/ record[r]' = ConsumedRecord("executed", code[r], "pass")
        \/ record[r]' = ConsumedRecord("failed", code[r], "fail")
    BY <1>5 DEF Test, TypeOK, SavedTypes
  <2>3. /\ ConsumedRecord("executed", code[r], "pass") \in Records
        /\ ConsumedRecord("executed", code[r], "pass").consumed
        /\ ConsumedRecord("executed", code[r], "pass").guide # Unset
    BY <1>0, ConsumedRecords
  <2>4. /\ ConsumedRecord("failed", code[r], "fail") \in Records
        /\ ConsumedRecord("failed", code[r], "fail").consumed
        /\ ConsumedRecord("failed", code[r], "fail").guide # Unset
    BY <1>0, ConsumedRecords
  <2>5. record[r]' \in Records /\ (record[r]'.consumed <=> record[r]'.guide # Unset)
    BY <2>2, <2>3, <2>4
  <2>. QED
    BY <2>1, <2>5, SavedRecorded
<1>6. CASE SaveRecord(r)
  <2>1. /\ pc[r] = "record" /\ record[r]' = record[r] /\ log' = log
        /\ disk[r]' = [disk[r] EXCEPT !.record = record[r]]
        /\ pc[r]' = IF record[r].guide = Unset THEN "log" ELSE "guide"
    BY <1>6 DEF SaveRecord, locals, TypeOK, ControlTypes, SavedTypes
  <2>2. disk[r]'.record = record[r]
    BY <2>1 DEF TypeOK, SavedTypes, Disks
  <2>. QED
    <3>1. RecordHeld(r)' /\ LoggedLast(r)'
      BY <2>1 DEF RecordHeld, LoggedLast, Saving
    <3>2. FilesFollow(r)'
      BY <2>1, <2>2 DEF FilesFollow
    <3>. QED
      BY <3>1, <3>2
<1>7. CASE SaveGuide(r)
  <2>1. /\ pc[r] = "guide" /\ record[r]' = record[r] /\ log' = log
        /\ disk[r]' = [disk[r] EXCEPT !.guide = record[r].guide]
        /\ pc[r]' = "log"
    BY <1>7 DEF SaveGuide, locals, TypeOK, ControlTypes, SavedTypes
  <2>2. disk[r]'.record = disk[r].record /\ disk[r]'.guide = record[r].guide
    BY <2>1 DEF TypeOK, SavedTypes, Disks
  <2>. QED
    BY <2>1, <2>2 DEF RecordHeld, FilesFollow, LoggedLast, Saving
<1>8. CASE AppendLog(r)
  <2>. DEFINE line == [run |-> r, status |-> record[r].status]
  <2>1. /\ pc[r] = "log" /\ pc[r]' = "returned"
        /\ record[r]' = record[r] /\ disk[r]' = disk[r] /\ log' = Append(log, line)
    BY <1>8 DEF AppendLog, locals, TypeOK, ControlTypes
  <2>2. line \in LogLines /\ log \in Seq(LogLines)
    BY <2>1 DEF RecordHeld, Saving, Records, LogLines, TypeOK, SavedTypes
  <2>. HIDE DEF line
  <2>3. /\ DOMAIN log' = 1 .. Len(log) + 1 /\ DOMAIN log = 1 .. Len(log) /\ Len(log) \in Nat
        /\ log'[Len(log) + 1] = line
        /\ \A j \in 1 .. Len(log) : log'[j] = log[j]
    BY <2>1, <2>2
  <2>4. \A j \in 1 .. Len(log) : log[j].run # r
    BY <2>1, <2>3 DEF LoggedLast
  <2>5. LoggedLast(r)'
    <3>1. /\ Len(log) + 1 \in DOMAIN log' /\ log'[Len(log) + 1] = line
          /\ \A j \in DOMAIN log' : log'[j].run = r => j <= Len(log) + 1
      BY <2>3
    <3>. QED
      BY <2>1, <3>1 DEF LoggedLast, line
  <2>. QED
    BY <2>1, <2>5 DEF RecordHeld, FilesFollow, Saving
<1>9. CASE SaveFails(r)
  <2>1. pc[r] \in Saving /\ pc[r] # "returned" /\ log' = log
    BY <1>9 DEF SaveFails, Saving
  <2>2. CASE record[r].consumed /\ ~retried[r]
    <3>1. Caught(r, code[r], record[r].report)
      BY <1>9, <2>2 DEF SaveFails
    <3>2. record[r].report \in {Unset, "pass", "fail"}
      BY <2>1 DEF RecordHeld, Records
    <3>. QED
      BY <1>0, <2>1, <3>1, <3>2, SavedCaught
  <2>3. CASE ~(record[r].consumed /\ ~retried[r])
    <3>1. pc[r]' = "threw"
      BY <1>9, <2>3 DEF SaveFails, TypeOK, ControlTypes
    <3>. QED
      BY <2>1, <3>1, SavedExecuting DEF Saving
  <2>. QED
    BY <2>2, <2>3
<1>. QED
  BY <1>1, <1>2, <1>3, <1>4, <1>5, <1>6, <1>7, <1>8, <1>9 DEF Step

\* ... and leaves what the other runs saved.
LEMMA SavedOtherStep ==
  ASSUME TypeOK, NEW r \in Runs, NEW s \in Runs \ {r}, Start(s) \/ Step(s),
         RecordHeld(r), FilesFollow(r), LoggedLast(r), RecordHeld(s)
  PROVE  RecordHeld(r)' /\ FilesFollow(r)' /\ LoggedLast(r)'
<1>1. pc[r]' = pc[r] /\ record[r]' = record[r] /\ disk[r]' = disk[r]
  BY StepIsLocal DEF Same
<1>2. CASE log' = log
  BY <1>1, <1>2, SavedFrame
<1>3. CASE AppendLog(s)
  <2>. DEFINE line == [run |-> s, status |-> record[s].status]
  <2>1. log' = Append(log, line) /\ line.run = s
    BY <1>3 DEF AppendLog
  <2>2. line \in LogLines /\ log \in Seq(LogLines)
    BY <1>3 DEF AppendLog, RecordHeld, Saving, Records, LogLines, TypeOK, SavedTypes
  <2>. HIDE DEF line
  <2>3. /\ DOMAIN log' = 1 .. Len(log) + 1 /\ DOMAIN log = 1 .. Len(log) /\ Len(log) \in Nat
        /\ log'[Len(log) + 1] = line
        /\ \A j \in 1 .. Len(log) : log'[j] = log[j]
    BY <2>1, <2>2
  <2>4. \A j \in DOMAIN log' : log'[j].run = r => j \in DOMAIN log /\ log[j].run = r
    <3>1. \A j \in DOMAIN log' : j \in DOMAIN log \/ j = Len(log) + 1
      BY <2>3
    <3>. QED
      BY <2>1, <2>3, <3>1
  <2>5. LoggedLast(r)'
    BY <1>1, <2>3, <2>4 DEF LoggedLast
  <2>. QED
    BY <1>1, <2>5 DEF RecordHeld, FilesFollow
<1>. QED
  BY <1>2, <1>3 DEF Start, Step, Checkpoint, Stat, Write, WriteFails, Diff, DiffFails, Test, TestFails,
                    SaveRecord, SaveGuide, AppendLog, SaveFails

-----------------------------------------------------------------------------
(* What a run writes is in the scope that was approved.                    *)

Scope == approved.targets \ (approved.forbidden \union Sensitive)

\* The operations a run has left are those validateExecutablePlan accepted.
ScopeOf(r) ==
  /\ touched[r] \subseteq Scope
  /\ pc[r] \in {"checkpoint", "stat", "write"} => \A i \in DOMAIN todo[r] : todo[r][i].file \in Scope

InScope == \A r \in Runs : ScopeOf(r)

LEMMA ScopeInit == Init => InScope
BY DEF Init, InScope, ScopeOf

\* What is left of a list in scope is in scope.
LEMMA ScopeHeads ==
  ASSUME TypeOK, NEW r \in Runs, todo[r] # << >>, \A i \in DOMAIN todo[r] : todo[r][i].file \in Scope
  PROVE  /\ Head(todo[r]).file \in Scope
         /\ \A i \in DOMAIN Tail(todo[r]) : Tail(todo[r])[i].file \in Scope
<1>1. todo[r] \in Seq(Operations)
  BY DEF TypeOK, ControlTypes
<1>2. 1 \in DOMAIN todo[r] /\ Head(todo[r]) = todo[r][1]
  BY <1>1
<1>3. \A i \in DOMAIN Tail(todo[r]) : i + 1 \in DOMAIN todo[r] /\ Tail(todo[r])[i] = todo[r][i + 1]
  BY <1>1, SMTT(30)
<1>. QED
  BY <1>2, <1>3

LEMMA ScopeOwnStep ==
  ASSUME TypeOK, NEW r \in Runs, ScopeOf(r), Start(r) \/ Step(r)
  PROVE  ScopeOf(r)'
<1>0. Start(r) \/ Step(r) => Scope' = Scope
  BY DEF Start, Step, Checkpoint, Stat, Write, WriteFails, Diff, DiffFails, Test, TestFails,
         SaveRecord, SaveGuide, AppendLog, SaveFails, Scope, outside
<1>1. CASE Start(r)
  <2>1. touched' = touched
    BY <1>1 DEF Start, files
  <2>2. PICK p \in Plans \union {NoPlan} :
          \/ Executable(p) /\ todo' = [todo EXCEPT ![r] = p.ops]
          \/ pc' = [pc EXCEPT ![r] = "record"]
    BY <1>1 DEF Start
  <2>3. CASE Executable(p) /\ todo' = [todo EXCEPT ![r] = p.ops]
    <3>1. todo[r]' = p.ops
      BY <2>3 DEF TypeOK, ControlTypes
    <3>2. \A i \in DOMAIN p.ops : p.ops[i].file \in Scope
      BY <2>3 DEF Executable, Scope
    <3>. QED
      BY <1>0, <1>1, <2>1, <3>1, <3>2 DEF ScopeOf
  <2>4. CASE pc' = [pc EXCEPT ![r] = "record"]
    <3>1. pc[r]' = "record"
      BY <2>4 DEF TypeOK, ControlTypes
    <3>. QED
      BY <1>0, <1>1, <2>1, <3>1 DEF ScopeOf
  <2>. QED
    BY <2>2, <2>3, <2>4
<1>2. CASE Checkpoint(r)
  BY <1>0, <1>2 DEF Step, Checkpoint, ScopeOf, files
<1>3. CASE Stat(r)
  <2>1. pc[r] = "stat" /\ todo[r] # << >> /\ touched' = touched
    BY <1>3 DEF Stat, files
  <2>2. todo[r]' = todo[r] \/ todo[r]' = Tail(todo[r])
    BY <1>3 DEF Stat, TypeOK, ControlTypes
  <2>3. \A i \in DOMAIN todo[r]' : todo[r]'[i].file \in Scope
    BY <2>1, <2>2, ScopeHeads DEF ScopeOf
  <2>. QED
    BY <1>0, <1>3, <2>1, <2>3 DEF Step, ScopeOf
<1>4. CASE Write(r) \/ WriteFails(r)
  <2>1. pc[r] = "write" /\ todo[r] # << >>
    BY <1>4 DEF Write, WriteFails, TypeOK, ControlTypes
  <2>2. todo[r]' = Tail(todo[r])
    BY <1>4 DEF Write, WriteFails, TypeOK, ControlTypes
  <2>3. touched[r]' \subseteq touched[r] \union {Head(todo[r]).file}
    BY <1>4 DEF Write, WriteFails, Touch, TypeOK, ResultTypes, files
  <2>4. /\ Head(todo[r]).file \in Scope
        /\ \A i \in DOMAIN Tail(todo[r]) : Tail(todo[r])[i].file \in Scope
    BY <2>1, ScopeHeads DEF ScopeOf
  <2>. QED
    BY <1>0, <1>4, <2>2, <2>3, <2>4 DEF Step, ScopeOf
<1>5. CASE Diff(r) \/ DiffFails(r) \/ (\E result \in {"passed", "failed"} : Test(r, result)) \/ TestFails(r)
           \/ SaveRecord(r) \/ SaveGuide(r) \/ AppendLog(r) \/ SaveFails(r)
  <2>1. touched' = touched
    BY <1>5 DEF Diff, DiffFails, Test, TestFails, SaveRecord, SaveGuide, AppendLog, SaveFails, files
  <2>2. \E next \in {"test", "record", "guide", "log", "returned", "threw"} : pc' = [pc EXCEPT ![r] = next]
    BY <1>5 DEF Diff, DiffFails, Test, TestFails, SaveRecord, SaveGuide, AppendLog, SaveFails, Caught
  <2>3. pc[r]' \notin {"checkpoint", "stat", "write"}
    BY <2>2 DEF TypeOK, ControlTypes
  <2>. QED
    BY <1>0, <1>5, <2>1, <2>3 DEF Step, ScopeOf
<1>. QED
  BY <1>1, <1>2, <1>3, <1>4, <1>5, SMTT(30) DEF Step

LEMMA ScopeOtherStep ==
  ASSUME TypeOK, NEW r \in Runs, NEW s \in Runs \ {r}, Start(s) \/ Step(s), ScopeOf(r)
  PROVE  ScopeOf(r)'
<1>1. Scope' = Scope
  BY DEF Start, Step, Checkpoint, Stat, Write, WriteFails, Diff, DiffFails, Test, TestFails,
         SaveRecord, SaveGuide, AppendLog, SaveFails, Scope, outside
<1>2. pc[r]' = pc[r] /\ todo[r]' = todo[r] /\ touched[r]' = touched[r]
  BY StepIsLocal DEF Same
<1>. QED
  BY <1>1, <1>2 DEF ScopeOf

-----------------------------------------------------------------------------
(* One approval, one execution, while runs do not overlap.                 *)

\* A run that is executing has no record yet, and one that has executed has consumed
\* the approval.
ConsumedAfter(r) ==
  /\ pc[r] \in Executing \union {"idle"} => record[r] = NoRecord
  /\ pc[r] \in Saving => (record[r].consumed => record[r].status # "blocked")
  /\ pc[r] \notin Executing /\ Executes(r) => approval = "consumed"

\* The approval is there while a run executes, and gone when one has executed.
ApprovalUsed(r) ==
  /\ ConsumedAfter(r)
  /\ pc[r] \in Executing => approval = "approved"

OneAtATime == \A r, s \in Runs : ~Ended(r) /\ ~Ended(s) => r = s

SerialUse == OneAtATime /\ (\A r \in Runs : ApprovalUsed(r)) /\ SingleUse

LEMMA SerialInit == Init => SerialUse
BY DEF Init, SerialUse, OneAtATime, ApprovalUsed, ConsumedAfter, SingleUse, Ended, Executes, Executing, Saving

\* The status of no record is no status of one.
LEMMA NoRecordIsOpen == NoRecord.status # "blocked"
BY ExecutionAssumption DEF NoRecord

\* A run that goes on executes if it did before.
LEMMA OwnStep ==
  ASSUME TypeOK, NEW r \in Runs, ConsumedAfter(r), Step(r)
  PROVE  /\ ~Ended(r) /\ approval' \in {approval, "consumed"}
         /\ pc[r]' \in Executing => pc[r] \in Executing /\ approval' = approval
         /\ Executes(r)' <=> Executes(r)
         /\ ConsumedAfter(r)'
<1>0. /\ r \in DOMAIN pc /\ r \in DOMAIN record
      /\ pc[r] \in Executing \union Saving \union {"idle", "returned", "threw"}
  BY DEF TypeOK, ControlTypes, SavedTypes
<1>1. CASE Checkpoint(r) \/ Stat(r) \/ Write(r) \/ WriteFails(r) \/ Diff(r)
  <2>1. pc[r] \in {"checkpoint", "stat", "write"} /\ approval' = approval /\ record' = record
    BY <1>1 DEF Checkpoint, Stat, Write, WriteFails, Diff
  <2>2. pc' = pc \/ \E next \in {"stat", "write", "test"} : pc' = [pc EXCEPT ![r] = next]
    BY <1>1 DEF Checkpoint, Stat, Write, WriteFails, Diff
  <2>3. pc[r]' \in Executing
    BY <1>0, <2>1, <2>2 DEF Executing
  <2>. QED
    BY <2>1, <2>3 DEF ConsumedAfter, Executes, Ended, Executing, Saving
<1>2. CASE DiffFails(r) \/ TestFails(r) \/ \E result \in {"passed", "failed"} : Test(r, result)
  <2>1. /\ pc[r] \in {"stat", "test"} /\ pc[r]' = "record" /\ approval' = "consumed"
        /\ record[r]'.status \in {"executed", "failed"}
    BY <1>0, <1>2 DEF DiffFails, TestFails, Test, Caught, ConsumedRecord
  <2>2. Executes(r)
    BY <2>1, NoRecordIsOpen DEF ConsumedAfter, Executes, Executing
  <2>. QED
    BY <2>1, <2>2 DEF ConsumedAfter, Executes, Ended, Executing, Saving
<1>3. CASE SaveRecord(r) \/ SaveGuide(r) \/ AppendLog(r)
  <2>1. pc[r] \in Saving /\ approval' = approval /\ record' = record
    BY <1>3 DEF SaveRecord, SaveGuide, AppendLog, Saving, locals
  <2>2. pc[r]' \in {"guide", "log", "returned"}
    BY <1>0, <1>3 DEF SaveRecord, SaveGuide, AppendLog
  <2>. QED
    BY <2>1, <2>2 DEF ConsumedAfter, Executes, Ended, Executing, Saving
<1>4. CASE SaveFails(r)
  <2>1. pc[r] \in Saving
    BY <1>4 DEF SaveFails
  <2>2. CASE record[r].consumed /\ ~retried[r]
    <3>1. /\ pc[r]' = "record" /\ approval' = "consumed" /\ record[r]'.status = "failed"
      BY <1>0, <1>4, <2>2 DEF SaveFails, Caught, ConsumedRecord
    <3>2. Executes(r)
      BY <2>1, <2>2 DEF ConsumedAfter, Executes, Saving
    <3>. QED
      BY <2>1, <3>1, <3>2 DEF ConsumedAfter, Executes, Ended, Executing, Saving
  <2>3. CASE ~(record[r].consumed /\ ~retried[r])
    <3>1. pc[r]' = "threw" /\ approval' = approval /\ record' = record
      BY <1>0, <1>4, <2>3 DEF SaveFails
    <3>. QED
      BY <2>1, <3>1 DEF ConsumedAfter, Executes, Ended, Executing, Saving
  <2>. QED
    BY <2>2, <2>3
<1>. QED
  BY <1>1, <1>2, <1>3, <1>4 DEF Step

\* A run that goes on had the approval before.
LEMMA SerialOwnStep ==
  ASSUME TypeOK, NEW r \in Runs, ApprovalUsed(r), Step(r)
  PROVE  /\ ~Ended(r) /\ approval' \in {approval, "consumed"}
         /\ Executes(r)' => Executes(r)
         /\ ApprovalUsed(r)'
BY OwnStep DEF ApprovalUsed

\* A call is validated under an approval that is still there.
LEMMA OwnStart ==
  ASSUME TypeOK, NEW r \in Runs, ConsumedAfter(r), Start(r)
  PROVE  /\ ~Executes(r) /\ approval' = approval
         /\ Executes(r)' => approval = "approved"
         /\ ConsumedAfter(r)'
<1>1. pc[r] = "idle" /\ approval' = approval
  BY DEF Start
<1>2. CASE pc' = [pc EXCEPT ![r] = "checkpoint"] /\ approval = "approved" /\ record' = record
  <2>1. pc[r]' = "checkpoint" /\ record[r]' = NoRecord
    BY <1>1, <1>2 DEF TypeOK, ControlTypes, ConsumedAfter
  <2>. QED
    BY <1>1, <1>2, <2>1 DEF ConsumedAfter, Executes, Executing, Saving
<1>3. CASE pc' = [pc EXCEPT ![r] = "record"] /\ record' = [record EXCEPT ![r] = BlockedRecord]
  <2>1. pc[r]' = "record" /\ record[r]' = BlockedRecord
    BY <1>3 DEF TypeOK, ControlTypes, SavedTypes
  <2>. QED
    BY <1>1, <2>1, BlockedRecords DEF ConsumedAfter, Executes, Executing, Saving
<1>. QED
  BY <1>2, <1>3 DEF Start, Executable

\* One run's step leaves what holds of the others: an approval never comes back.
LEMMA ConsumedStep ==
  ASSUME TypeOK, \A r \in Runs : ConsumedAfter(r), NEW s \in Runs, Start(s) \/ Step(s)
  PROVE  \A r \in Runs : ConsumedAfter(r)'
<1>1. approval' \in {approval, "consumed"} /\ ConsumedAfter(s)'
  BY OwnStart, OwnStep
<1>2. ASSUME NEW r \in Runs \ {s} PROVE ConsumedAfter(r)'
  <2>1. pc[r]' = pc[r] /\ record[r]' = record[r] /\ ConsumedAfter(r)
    BY StepIsLocal DEF Same
  <2>. QED
    BY <1>1, <2>1 DEF ConsumedAfter, Executes
<1>. QED
  BY <1>1, <1>2

LEMMA SerialStep ==
  ASSUME TypeOK, SerialUse, NEW r \in Runs, Step(r)
  PROVE  SerialUse'
<1>1. ApprovalUsed(r)
  BY DEF SerialUse
<1>2. /\ ~Ended(r) /\ approval' \in {approval, "consumed"}
      /\ Executes(r)' => Executes(r)
      /\ ApprovalUsed(r)'
  BY <1>1, SerialOwnStep
<1>3. \A s \in Runs \ {r} : pc[s]' = pc[s] /\ record[s]' = record[s]
  BY StepIsLocal DEF Same
<1>4. \A s \in Runs \ {r} : (Executes(s)' <=> Executes(s)) /\ (Ended(s)' <=> Ended(s))
  BY <1>3 DEF Executes, Ended
<1>5. \A s \in Runs \ {r} : Ended(s)
  BY <1>2 DEF SerialUse, OneAtATime
<1>6. OneAtATime'
  BY <1>4, <1>5 DEF OneAtATime
<1>7. ASSUME NEW s \in Runs \ {r} PROVE ApprovalUsed(s)'
  <2>1. ApprovalUsed(s)
    BY DEF SerialUse
  <2>2. pc[s] \notin Executing /\ pc[s] \notin Saving
    BY <1>5 DEF Ended, Executing, Saving
  <2>. QED
    BY <1>2, <1>3, <1>4, <2>1, <2>2 DEF ApprovalUsed, ConsumedAfter
<1>8. SingleUse'
  BY <1>2, <1>4 DEF SerialUse, SingleUse
<1>. QED
  BY <1>2, <1>6, <1>7, <1>8 DEF SerialUse

LEMMA SerialStart ==
  ASSUME TypeOK, SerialUse, ~Overlap, NEW r \in Runs, Start(r)
  PROVE  SerialUse'
<1>1. /\ pc[r] = "idle" /\ approval' = approval
      /\ \A s \in Runs : Ended(s)
  BY DEF Start
<1>2. \A s \in Runs \ {r} : pc[s]' = pc[s] /\ record[s]' = record[s]
  BY StepIsLocal DEF Same
<1>3. \A s \in Runs \ {r} : (Executes(s)' <=> Executes(s)) /\ (Ended(s)' <=> Ended(s))
  BY <1>2 DEF Executes, Ended
<1>4. OneAtATime'
  BY <1>1, <1>3 DEF OneAtATime
<1>5. \A s \in Runs \ {r} : ApprovalUsed(s)'
  BY <1>1, <1>2, <1>3 DEF SerialUse, ApprovalUsed, ConsumedAfter
<1>6. CASE pc' = [pc EXCEPT ![r] = "checkpoint"] /\ approval = "approved" /\ record' = record
  <2>1. pc[r]' = "checkpoint"
    BY <1>6 DEF TypeOK, ControlTypes
  <2>2. record[r]' = NoRecord
    BY <1>1, <1>6 DEF SerialUse, ApprovalUsed, ConsumedAfter
  <2>3. ApprovalUsed(r)'
    BY <1>1, <1>6, <2>1, <2>2 DEF ApprovalUsed, ConsumedAfter, Executing, Saving
  <2>4. \A s \in Runs \ {r} : ~Executes(s)
    BY <1>1, <1>6 DEF SerialUse, ApprovalUsed, ConsumedAfter, Ended, Executing
  <2>. QED
    BY <1>3, <1>4, <1>5, <2>3, <2>4 DEF SerialUse, SingleUse
<1>7. CASE pc' = [pc EXCEPT ![r] = "record"] /\ record' = [record EXCEPT ![r] = BlockedRecord]
  <2>1. pc[r]' = "record" /\ record[r]' = BlockedRecord
    BY <1>7 DEF TypeOK, ControlTypes, SavedTypes
  <2>2. ~Executes(r)' /\ ApprovalUsed(r)'
    BY <2>1, BlockedRecords DEF Executes, ApprovalUsed, ConsumedAfter, Executing, Saving
  <2>. QED
    BY <1>3, <1>4, <1>5, <2>2 DEF SerialUse, SingleUse
<1>. QED
  BY <1>6, <1>7 DEF Start, Executable

-----------------------------------------------------------------------------
(* An executed plan is done, while runs do not overlap and nobody edits.   *)

\* Among the first k operations, i is the last one on its file.
LastOn(ops, k, i) == \A j \in 1..k : ops[j].file = ops[i].file => j <= i

\* The first k operations are done: their files are among the touched ones t, and of
\* those that nobody else changed since, l, the last operation on each left its
\* content in the workspace w.
Done(ops, k, t, l, w) ==
  \A i \in 1..k : /\ ops[i].file \in t
                  /\ LastOn(ops, k, i) /\ ops[i].file \in l => w[ops[i].file] = ops[i].content

\* The operations left are those at the end of the plan.
Left(ops, rest) ==
  /\ Len(rest) <= Len(ops)
  /\ \A j \in 1..Len(rest) : rest[j] = ops[Len(ops) - Len(rest) + j]

LEMMA NextOperation ==
  ASSUME NEW ops \in Seq(Operations), NEW rest \in Seq(Operations), Left(ops, rest), rest # << >>
  PROVE  LET k == Len(ops) - Len(rest) IN
           /\ k \in Nat /\ k + 1 <= Len(ops) /\ Head(rest) = ops[k + 1]
           /\ Left(ops, Tail(rest)) /\ Len(ops) - Len(Tail(rest)) = k + 1
<1>. DEFINE k == Len(ops) - Len(rest)
<1>1. /\ Len(rest) \in Nat /\ Len(rest) > 0 /\ Len(ops) \in Nat /\ Len(rest) <= Len(ops)
      /\ Len(Tail(rest)) = Len(rest) - 1 /\ Head(rest) = rest[1]
      /\ \A j \in 1..Len(rest) - 1 : Tail(rest)[j] = rest[j + 1]
  BY HeadTailProperties DEF Left
<1>2. k \in Nat /\ k + 1 <= Len(ops) /\ Len(ops) - Len(Tail(rest)) = k + 1
  BY <1>1
<1>3. Head(rest) = ops[k + 1]
  BY <1>1 DEF Left
<1>4. ASSUME NEW j \in 1..Len(Tail(rest)) PROVE Tail(rest)[j] = ops[Len(ops) - Len(Tail(rest)) + j]
  <2>1. Tail(rest)[j] = rest[j + 1] /\ j + 1 \in 1..Len(rest)
    BY <1>1
  <2>2. rest[j + 1] = ops[k + (j + 1)]
    BY <2>1 DEF Left
  <2>3. k + (j + 1) = Len(ops) - Len(Tail(rest)) + j
    BY <1>1
  <2>. QED
    BY <2>1, <2>2, <2>3
<1>. QED
  BY <1>1, <1>2, <1>3, <1>4 DEF Left

LEMMA OneMoreDone ==
  ASSUME NEW ops \in Seq(Operations), NEW k \in Nat, k + 1 <= Len(ops), NEW t, NEW l, NEW w,
         DOMAIN w = Files, Done(ops, k, t, l, w)
  PROVE  Done(ops, k + 1, t \union {ops[k + 1].file}, l \union {ops[k + 1].file},
              [w EXCEPT ![ops[k + 1].file] = ops[k + 1].content])
<1>. DEFINE new == ops[k + 1].file
            v == [w EXCEPT ![new] = ops[k + 1].content]
<1>1. \A i \in 1..k + 1 : i \in 1..Len(ops) /\ (i \in 1..k \/ i = k + 1)
  OBVIOUS
<1>2. \A i \in 1..k + 1 : ops[i].file \in Files
  <2>1. \A i \in 1..k + 1 : ops[i] \in Operations
    BY <1>1
  <2>. QED
    BY <2>1 DEF Operations
<1>. SUFFICES ASSUME NEW i \in 1..k + 1
              PROVE  /\ ops[i].file \in t \union {new}
                     /\ LastOn(ops, k + 1, i) /\ ops[i].file \in l \union {new}
                          => v[ops[i].file] = ops[i].content
  BY DEF Done
<1>3. CASE i = k + 1
  <2>1. new \in DOMAIN w
    BY <1>2
  <2>. QED
    BY <1>3, <2>1
<1>4. CASE i \in 1..k
  <2>1. /\ ops[i].file \in t /\ ops[i].file \in DOMAIN w
        /\ LastOn(ops, k, i) /\ ops[i].file \in l => w[ops[i].file] = ops[i].content
    BY <1>2, <1>4 DEF Done
  <2>2. ASSUME LastOn(ops, k + 1, i)
        PROVE  LastOn(ops, k, i) /\ ops[i].file # new
    <3>1. LastOn(ops, k, i)
      BY <1>4, <2>2 DEF LastOn
    <3>2. ~(k + 1 <= i) /\ k + 1 \in 1..k + 1
      BY <1>4
    <3>. QED
      BY <2>2, <3>1, <3>2 DEF LastOn
  <2>. QED
    BY <2>1, <2>2
<1>. QED
  BY <1>1, <1>3, <1>4

\* What others change is no longer among the files that were changed last.
LEMMA StillDone ==
  ASSUME NEW ops, NEW k, NEW t, NEW l, NEW w, Done(ops, k, t, l, w),
         NEW l2, NEW w2, \A f \in l2 : f \in l /\ w2[f] = w[f]
  PROVE  Done(ops, k, t, l2, w2)
BY DEF Done

LEMMA AllDoneMeans ==
  ASSUME NEW ops \in Seq(Operations), NEW t, NEW l, NEW w, Done(ops, Len(ops), t, l, w),
         NEW i \in DOMAIN ops
  PROVE  /\ ops[i].file \in t
         /\ ops[i].file \in l => w[ops[i].file] = LastContent(ops, ops[i].file)
<1>. DEFINE f == ops[i].file
            S == {j \in 1..Len(ops) : ops[j].file = f}
            last == CHOOSE m \in DOMAIN ops : ops[m].file = f /\ \A j \in DOMAIN ops : ops[j].file = f => j <= m
<1>1. DOMAIN ops = 1..Len(ops) /\ Len(ops) \in Nat /\ i \in S
  OBVIOUS
<1>2. PICK m \in S : \A j \in S : j <= m
  BY <1>1, GreatestIndex, Zenon
<1>3. m \in DOMAIN ops /\ ops[m].file = f /\ \A j \in DOMAIN ops : ops[j].file = f => j <= m
  BY <1>1, <1>2
<1>4. last \in DOMAIN ops /\ ops[last].file = f /\ \A j \in DOMAIN ops : ops[j].file = f => j <= last
  BY <1>3, Zenon
<1>5. LastContent(ops, f) = ops[last].content
  BY Zenon DEF LastContent
<1>. HIDE DEF last
<1>6. LastOn(ops, Len(ops), last) /\ last \in 1..Len(ops)
  BY <1>1, <1>4 DEF LastOn
<1>7. f \in l => w[f] = ops[last].content
  BY <1>4, <1>6 DEF Done
<1>8. f \in t
  BY <1>1 DEF Done
<1>. QED
  BY <1>5, <1>7, <1>8

\* The verifier passes no result of a failed execution and no failed tests.
LEMMA PassesMeans ==
  ASSUME NEW c, NEW result, Passes(c, [status |-> result], Task)
  PROVE  c.status # "failed" /\ result # "failed"
<1>. DEFINE e == Evidence(c, [status |-> result])
<1>1. e.code = c.status /\ e.test = result
  BY DEF Evidence
<1>2. Classify(e, ConstraintFailures(e, Task)) = {}
  BY Zenon DEF Passes, FailureCodes
<1>. HIDE DEF e
<1>3. e.code # "failed" /\ e.test # "failed"
  BY <1>2 DEF Classify, When
<1>. QED
  BY <1>1, <1>3

AllDone(r) == Done(plan[r].ops, Len(plan[r].ops), touched[r], latest[r], work)

\* How far a run is: without trouble, every operation that is not left is done.
Progress(r) ==
  pc[r] \in {"checkpoint", "stat", "write"} =>
    /\ Left(plan[r].ops, todo[r])
    /\ trouble[r] = {} =>
         Done(plan[r].ops, Len(plan[r].ops) - Len(todo[r]), touched[r], latest[r], work)

\* A code result that is not a failure, and an executed record, tell the truth.
Claims(r) ==
  /\ pc[r] \in Executing => plan[r] \in Plans
  /\ pc[r] = "test" /\ code[r].status # "failed" => AllDone(r)
  /\ record[r].status = "executed" \/ disk[r].record.status = "executed" =>
       /\ Executes(r) /\ pc[r] \notin Executing /\ plan[r] \in Plans
       /\ test[r].status = "passed" /\ AllDone(r)

Truthful == \A r \in Runs : Progress(r) /\ Claims(r)

\* No file, or one that a crash cut short, holds no executed record.
LEMMA NothingExecuted == NoRecord.status # "executed" /\ TornRecord.status # "executed"
BY ExecutionAssumption DEF NoRecord, TornRecord

LEMMA TruthfulInit == Init => Truthful
<1>. SUFFICES ASSUME Init, NEW r \in Runs PROVE Progress(r) /\ Claims(r)
  BY DEF Truthful
<1>1. pc[r] = "idle" /\ record[r] = NoRecord /\ disk[r].record = NoRecord
  BY DEF Init
<1>. QED
  BY <1>1, NothingExecuted DEF Progress, Claims, Executing

\* What a run may read of its own state when it is not at the start.
LEMMA PlanOps ==
  ASSUME TypeOK, NEW r \in Runs, plan[r] \in Plans
  PROVE  plan[r].ops \in Seq(Operations) /\ todo[r] \in Seq(Operations)
BY ExecutionAssumption DEF TypeOK, ControlTypes

LEMMA TruthfulStart ==
  ASSUME TypeOK, NEW r \in Runs, ConsumedAfter(r), Claims(r), Start(r)
  PROVE  Progress(r)' /\ Claims(r)'
<1>1. PICK p \in Plans \union {NoPlan} :
        /\ plan' = [plan EXCEPT ![r] = p]
        /\ \/ /\ Executable(p)
              /\ todo' = [todo EXCEPT ![r] = p.ops]
              /\ pc' = [pc EXCEPT ![r] = "checkpoint"]
              /\ UNCHANGED record
           \/ /\ ~Executable(p)
              /\ record' = [record EXCEPT ![r] = BlockedRecord]
              /\ pc' = [pc EXCEPT ![r] = "record"]
              /\ UNCHANGED todo
  BY DEF Start
<1>2. /\ r \in DOMAIN pc /\ r \in DOMAIN record /\ r \in DOMAIN plan /\ r \in DOMAIN todo
      /\ plan'[r] = p /\ disk' = disk
  BY <1>1 DEF Start, TypeOK, ControlTypes, SavedTypes
<1>3. record[r] = NoRecord /\ disk[r].record.status # "executed" /\ record[r].status # "executed"
  BY NothingExecuted DEF Start, ConsumedAfter, Claims, Executes
<1>4. CASE Executable(p) /\ todo' = [todo EXCEPT ![r] = p.ops]
           /\ pc' = [pc EXCEPT ![r] = "checkpoint"] /\ UNCHANGED record
  <2>1. p \in Plans /\ p.ops \in Seq(Operations) /\ todo'[r] = p.ops /\ pc'[r] = "checkpoint"
    BY <1>2, <1>4, ExecutionAssumption DEF Executable
  <2>2. Left(p.ops, p.ops) /\ Len(p.ops) - Len(p.ops) = 0
    BY <2>1 DEF Left
  <2>3. Done(p.ops, 0, touched'[r], latest'[r], work')
    BY DEF Done
  <2>. QED
    BY <1>2, <1>3, <1>4, <2>1, <2>2, <2>3 DEF Progress, Claims
<1>5. CASE record' = [record EXCEPT ![r] = BlockedRecord] /\ pc' = [pc EXCEPT ![r] = "record"]
  <2>1. record'[r].status = "blocked" /\ pc'[r] = "record"
    BY <1>2, <1>5, BlockedRecords
  <2>. QED
    BY <1>2, <1>3, <2>1 DEF Progress, Claims, Executing
<1>. QED
  BY <1>1, <1>4, <1>5

\* A run that executes has no executed record yet.
LEMMA NotYetExecuted ==
  ASSUME NEW r \in Runs, Claims(r), pc[r] \in Executing
  PROVE  record[r].status # "executed" /\ disk[r].record.status # "executed" /\ plan[r] \in Plans
BY DEF Claims

LEMMA TruthfulWrites ==
  ASSUME TypeOK, NEW r \in Runs, Progress(r), Claims(r),
         Checkpoint(r) \/ Stat(r) \/ Write(r) \/ WriteFails(r)
  PROVE  Progress(r)' /\ Claims(r)'
<1>1. pc[r] \in {"checkpoint", "stat", "write"} /\ pc[r] \in Executing
  BY DEF Checkpoint, Stat, Write, WriteFails, Executing
<1>2. /\ r \in DOMAIN pc /\ r \in DOMAIN todo /\ r \in DOMAIN trouble /\ r \in DOMAIN touched
      /\ DOMAIN work = Files /\ latest \in [Runs -> SUBSET Files]
  BY DEF TypeOK, ControlTypes, ResultTypes, SharedTypes
<1>3. /\ record[r].status # "executed" /\ disk[r].record.status # "executed"
      /\ plan[r] \in Plans /\ plan[r].ops \in Seq(Operations) /\ todo[r] \in Seq(Operations)
  BY <1>1, NotYetExecuted, PlanOps
<1>4. /\ UNCHANGED <<plan, record, disk>>
      /\ pc'[r] \in {"stat", "write"}
  BY <1>2 DEF Checkpoint, Stat, Write, WriteFails
<1>5. Claims(r)'
  BY <1>3, <1>4 DEF Claims
<1>. DEFINE ops == plan[r].ops
            k == Len(ops) - Len(todo[r])
<1>6. Left(ops, todo[r]) /\ (trouble[r] = {} => Done(ops, k, touched[r], latest[r], work))
  BY <1>1 DEF Progress
<1>7. /\ Left(ops, todo'[r])
      /\ trouble'[r] = {} => Done(ops, Len(ops) - Len(todo'[r]), touched'[r], latest'[r], work')
  <2>1. CASE UNCHANGED <<todo, trouble, touched, latest, work>>
    BY <1>6, <2>1
  <2>2. ASSUME todo[r] # << >>
        PROVE  /\ k \in Nat /\ k + 1 <= Len(ops) /\ Head(todo[r]) = ops[k + 1]
               /\ Left(ops, Tail(todo[r])) /\ Len(ops) - Len(Tail(todo[r])) = k + 1
    BY <1>3, <1>6, <2>2, NextOperation
  <2>3. CASE todo[r] # << >> /\ todo' = [todo EXCEPT ![r] = Tail(@)]
             /\ \E x \in {"refused", "failed"} : trouble' = [trouble EXCEPT ![r] = @ \union {x}]
    <3>1. todo'[r] = Tail(todo[r]) /\ trouble'[r] # {}
      BY <1>2, <2>3
    <3>. QED
      BY <2>2, <2>3, <3>1
  <2>4. CASE Write(r)
    <3>1. todo[r] # << >>
      BY <2>4 DEF Write, TypeOK, ControlTypes
    <3>2. /\ todo'[r] = Tail(todo[r]) /\ trouble' = trouble
          /\ touched'[r] = touched[r] \union {ops[k + 1].file}
          /\ latest'[r] = latest[r] \union {ops[k + 1].file}
          /\ work' = [work EXCEPT ![ops[k + 1].file] = ops[k + 1].content]
      BY <1>2, <2>2, <2>4, <3>1 DEF Write, Touch
    <3>3. trouble[r] = {} => Done(ops, k + 1, touched'[r], latest'[r], work')
      <4>1. /\ ops \in Seq(Operations) /\ k \in Nat /\ k + 1 <= Len(ops)
            /\ trouble[r] = {} => Done(ops, k, touched[r], latest[r], work)
        BY <1>3, <1>6, <2>2, <3>1
      <4>. HIDE DEF ops, k
      <4>2. trouble[r] = {} =>
              Done(ops, k + 1, touched[r] \union {ops[k + 1].file}, latest[r] \union {ops[k + 1].file},
                   [work EXCEPT ![ops[k + 1].file] = ops[k + 1].content])
        BY <1>2, <4>1, OneMoreDone
      <4>. QED
        BY <3>2, <4>2
    <3>. QED
      BY <2>2, <3>1, <3>2, <3>3
  <2>5. CASE Checkpoint(r)
    BY <2>1, <2>5 DEF Checkpoint, files
  <2>6. CASE Stat(r)
    BY <2>1, <2>3, <2>6 DEF Stat, files
  <2>7. CASE WriteFails(r)
    <3>1. todo[r] # << >>
      BY <2>7 DEF WriteFails, TypeOK, ControlTypes
    <3>. QED
      BY <2>3, <2>7, <3>1 DEF WriteFails
  <2>. QED
    BY <2>4, <2>5, <2>6, <2>7
<1>. QED
  BY <1>4, <1>5, <1>7 DEF Progress

\* The results of a run, when its operations are over.
LEMMA TruthfulResults ==
  ASSUME TypeOK, NEW r \in Runs, Progress(r), Claims(r), ConsumedAfter(r),
         Diff(r) \/ DiffFails(r) \/ TestFails(r) \/ \E result \in {"passed", "failed"} : Test(r, result)
  PROVE  Progress(r)' /\ Claims(r)'
<1>1. pc[r] \in {"stat", "test"} /\ pc[r] \in Executing
  BY DEF Diff, DiffFails, TestFails, Test, Executing
<1>2. r \in DOMAIN pc /\ r \in DOMAIN record /\ r \in DOMAIN code /\ r \in DOMAIN test
  BY DEF TypeOK, ControlTypes, ResultTypes, SavedTypes
<1>3. /\ record[r].status # "executed" /\ disk[r].record.status # "executed"
      /\ plan[r] \in Plans /\ plan[r].ops \in Seq(Operations) /\ todo[r] \in Seq(Operations)
  BY <1>1, NotYetExecuted, PlanOps
<1>4. UNCHANGED <<plan, disk, touched, latest, work>>
  BY DEF Diff, DiffFails, TestFails, Test, files
<1>5. CASE Diff(r)
  <2>1. /\ pc'[r] = "test" /\ record' = record /\ todo[r] = << >> /\ pc[r] = "stat"
    BY <1>2, <1>5 DEF Diff
  <2>2. code'[r].status # "failed" => trouble[r] = {}
    BY <1>2, <1>5 DEF Diff
  <2>3. Len(plan[r].ops) - Len(todo[r]) = Len(plan[r].ops)
    BY <1>3, <2>1
  <2>4. trouble[r] = {} => AllDone(r)
    BY <2>1, <2>3 DEF Progress, AllDone
  <2>5. AllDone(r) => AllDone(r)'
    BY <1>4 DEF AllDone
  <2>. QED
    BY <1>3, <1>4, <2>1, <2>2, <2>4, <2>5 DEF Progress, Claims
<1>6. CASE DiffFails(r) \/ TestFails(r)
  <2>1. pc'[r] = "record" /\ record'[r].status = "failed"
    BY <1>2, <1>6 DEF DiffFails, TestFails, Caught, ConsumedRecord
  <2>. QED
    BY <1>3, <1>4, <2>1 DEF Progress, Claims, Executing
<1>7. ASSUME NEW result \in {"passed", "failed"}, Test(r, result) PROVE Progress(r)' /\ Claims(r)'
  <2>1. /\ pc'[r] = "record" /\ pc[r] = "test" /\ test'[r].status = result
        /\ record'[r].status \in {"executed", "failed"}
        /\ record'[r].status = "executed" => Passes(code[r], [status |-> result], Task)
    BY <1>2, <1>7 DEF Test, ConsumedRecord
  <2>2. record'[r].status = "executed" => AllDone(r) /\ result = "passed"
    BY <2>1, PassesMeans DEF Claims
  <2>3. AllDone(r) => AllDone(r)'
    BY <1>4 DEF AllDone
  <2>4. Executes(r)'
    BY <2>1 DEF Executes
  <2>. QED
    BY <1>3, <1>4, <2>1, <2>2, <2>3, <2>4 DEF Progress, Claims, Executing
<1>. QED
  BY <1>5, <1>6, <1>7

LEMMA TruthfulSaves ==
  ASSUME TypeOK, NEW r \in Runs, Claims(r),
         SaveRecord(r) \/ SaveGuide(r) \/ AppendLog(r) \/ SaveFails(r)
  PROVE  Progress(r)' /\ Claims(r)'
<1>1. pc[r] \in Saving
  BY DEF SaveRecord, SaveGuide, AppendLog, SaveFails, Saving
<1>2. /\ r \in DOMAIN pc /\ r \in DOMAIN record /\ r \in DOMAIN disk
      /\ disk[r] \in Disks
  BY DEF TypeOK, ControlTypes, SavedTypes
<1>3. UNCHANGED <<plan, touched, latest, work, test>>
  BY DEF SaveRecord, SaveGuide, AppendLog, SaveFails, files, locals
<1>4. pc'[r] \in {"record", "guide", "log", "returned", "threw"}
  BY <1>2 DEF SaveRecord, SaveGuide, AppendLog, SaveFails, Caught
<1>5. \/ record'[r] = record[r]
      \/ record'[r].status = "failed"
  BY <1>2 DEF SaveRecord, SaveGuide, AppendLog, SaveFails, Caught, ConsumedRecord, locals
<1>6. disk'[r].record \in {disk[r].record, record[r], TornRecord}
  <2>1. DOMAIN disk[r] = {"record", "guide"}
    BY <1>2 DEF Disks
  <2>. QED
    BY <1>2, <2>1 DEF SaveRecord, SaveGuide, AppendLog, SaveFails
<1>7. AllDone(r) => AllDone(r)'
  BY <1>3 DEF AllDone
<1>8. record'[r].status = "executed" \/ disk'[r].record.status = "executed" =>
        record[r].status = "executed" \/ disk[r].record.status = "executed"
  BY <1>5, <1>6, NothingExecuted
<1>9. Executes(r) => Executes(r)'
  BY <1>4, <1>5 DEF Executes
<1>. QED
  BY <1>1, <1>3, <1>4, <1>7, <1>8, <1>9 DEF Progress, Claims, Executing

\* Another run writes nothing that this one vouches for.
LEMMA OthersAreLocal ==
  ASSUME TypeOK, NEW r \in Runs, NEW s \in Runs \ {r}, Start(s) \/ Step(s)
  PROVE  /\ plan[r]' = plan[r] /\ trouble[r]' = trouble[r]
         /\ code[r]' = code[r] /\ test[r]' = test[r]
<1>0. r \in DOMAIN plan /\ r \in DOMAIN trouble /\ r \in DOMAIN code /\ r \in DOMAIN test
  BY DEF TypeOK, ControlTypes, ResultTypes
<1>1. CASE Start(s)
  BY <1>0, <1>1 DEF Start
<1>2. CASE Checkpoint(s) \/ Write(s)
  BY <1>0, <1>2 DEF Checkpoint, Write
<1>3. CASE Stat(s) \/ WriteFails(s)
  BY <1>0, <1>3 DEF Stat, WriteFails
<1>4. CASE Diff(s) \/ DiffFails(s) \/ TestFails(s)
  BY <1>0, <1>4 DEF Diff, DiffFails, TestFails
<1>5. ASSUME NEW result \in {"passed", "failed"}, Test(s, result)
      PROVE  /\ plan[r]' = plan[r] /\ trouble[r]' = trouble[r]
             /\ code[r]' = code[r] /\ test[r]' = test[r]
  BY <1>0, <1>5 DEF Test
<1>6. CASE SaveRecord(s) \/ SaveGuide(s) \/ AppendLog(s) \/ SaveFails(s)
  BY <1>6 DEF SaveRecord, SaveGuide, AppendLog, SaveFails, locals
<1>. QED
  BY <1>1, <1>2, <1>3, <1>4, <1>5, <1>6 DEF Step

LEMMA WorkIsWritten ==
  ASSUME NEW s \in Runs, Start(s) \/ Step(s)
  PROVE  work' = work \/ pc[s] = "write"
BY DEF Step, Start, Checkpoint, Stat, Write, WriteFails, Diff, DiffFails, Test, TestFails, SaveRecord,
       SaveGuide, AppendLog, SaveFails, files

\* What others change this run is not the last one to have changed.
LEMMA OthersSpare ==
  ASSUME TypeOK, NEW r \in Runs,
         \/ \E s \in Runs \ {r} : Start(s) \/ Step(s)
         \/ \E f \in Files : Edit(f)
  PROVE  \A f \in latest[r]' : f \in latest[r] /\ work'[f] = work[f]
<1>0. r \in DOMAIN latest /\ DOMAIN work = Files /\ latest[r] \subseteq Files
  BY DEF TypeOK, ResultTypes, SharedTypes
<1>1. ASSUME NEW f \in Files, Edit(f) PROVE \A g \in latest[r]' : g \in latest[r] /\ work'[g] = work[g]
  <2>1. latest[r]' = latest[r] \ {f} /\ \A g \in Files \ {f} : work'[g] = work[g]
    BY <1>0, <1>1, SMTT(30) DEF Edit
  <2>. QED
    BY <1>0, <2>1
<1>2. ASSUME NEW s \in Runs \ {r}, Start(s) \/ Step(s)
      PROVE  \A g \in latest[r]' : g \in latest[r] /\ work'[g] = work[g]
  <2>1. CASE Write(s)
    <3>1. latest[r]' = latest[r] \ {Head(todo[s]).file}
      BY <1>0, <2>1 DEF Write, Touch
    <3>2. work' = [work EXCEPT ![Head(todo[s]).file] = Head(todo[s]).content]
      BY <2>1 DEF Write
    <3>. QED
      BY <1>0, <3>1, <3>2
  <2>2. CASE WriteFails(s)
    <3>1. CASE UNCHANGED files
      BY <3>1 DEF files
    <3>2. CASE /\ work' = [work EXCEPT ![Head(todo[s]).file] = Torn]
               /\ Touch(s, Head(todo[s]).file)
      <4>1. latest[r]' = latest[r] \ {Head(todo[s]).file}
        BY <1>0, <3>2 DEF Touch
      <4>. QED
        BY <1>0, <3>2, <4>1
    <3>. QED
      BY <2>2, <3>1, <3>2 DEF WriteFails
  <2>3. CASE UNCHANGED <<work, latest>>
    BY <2>3
  <2>. QED
    BY <1>2, <2>1, <2>2, <2>3 DEF Start, Step, Checkpoint, Stat, Diff, DiffFails, Test, TestFails, SaveRecord,
       SaveGuide, AppendLog, SaveFails, files
<1>. QED
  BY <1>1, <1>2

\* Whatever others do, what a run claims stays true.
LEMMA TruthfulOthers ==
  ASSUME TypeOK, NEW r \in Runs, Progress(r), Claims(r),
         pc[r]' = pc[r], record[r]' = record[r], disk[r]' = disk[r],
         todo[r]' = todo[r], touched[r]' = touched[r],
         plan[r]' = plan[r], trouble[r]' = trouble[r], code[r]' = code[r], test[r]' = test[r],
         \A f \in latest[r]' : f \in latest[r] /\ work'[f] = work[f]
  PROVE  Progress(r)' /\ Claims(r)'
<1>1. AllDone(r) => AllDone(r)'
  BY StillDone DEF AllDone
<1>2. ASSUME NEW k, Done(plan[r].ops, k, touched[r], latest[r], work)
      PROVE  Done(plan[r].ops, k, touched[r], latest[r]', work')
  BY <1>2, StillDone
<1>3. Progress(r)'
  BY <1>2 DEF Progress
<1>. QED
  BY <1>1, <1>3 DEF Claims, Executes

-----------------------------------------------------------------------------
(* The theorems.                                                           *)

\* What is inductive however runs overlap.
IInv ==
  /\ TypeOK /\ SavedInOrder /\ InScope
  /\ \A r \in Runs : ConsumedAfter(r)
  /\ Truthful

LEMMA TruthfulOwnStep ==
  ASSUME TypeOK, NEW r \in Runs, Progress(r), Claims(r), ConsumedAfter(r), Start(r) \/ Step(r)
  PROVE  Progress(r)' /\ Claims(r)'
BY TruthfulStart, TruthfulWrites, TruthfulResults, TruthfulSaves DEF Step

LEMMA TruthfulOtherStep ==
  ASSUME TypeOK, NEW r \in Runs, NEW s \in Runs \ {r}, Start(s) \/ Step(s), Progress(r), Claims(r)
  PROVE  Progress(r)' /\ Claims(r)'
<1>1. /\ pc[r]' = pc[r] /\ record[r]' = record[r] /\ disk[r]' = disk[r]
      /\ todo[r]' = todo[r] /\ touched[r]' = touched[r]
      /\ plan[r]' = plan[r] /\ trouble[r]' = trouble[r]
      /\ code[r]' = code[r] /\ test[r]' = test[r]
  BY StepIsLocal, OthersAreLocal DEF Same
<1>2. \A f \in latest[r]' : f \in latest[r] /\ work'[f] = work[f]
  BY OthersSpare
<1>. QED
  BY <1>1, <1>2, TruthfulOthers

LEMMA IInvInit == Init => IInv
<1>1. Init => \A r \in Runs : ConsumedAfter(r)
  BY DEF Init, ConsumedAfter, Executes, Executing, Saving
<1>. QED
  BY <1>1, TypeInit, SavedInit, ScopeInit, TruthfulInit DEF IInv

LEMMA IInvNext == IInv /\ [Next]_vars => IInv'
<1>. SUFFICES ASSUME IInv, [Next]_vars PROVE IInv'
  OBVIOUS
<1>. USE DEF IInv
<1>1. ASSUME NEW s \in Runs, Start(s) \/ Step(s) PROVE IInv'
  <2>1. pc[s] \in Saving => record[s] \in Records
    BY DEF SavedInOrder, RecordHeld
  <2>2. TypeOK'
    <3>1. CASE SaveRecord(s) \/ SaveGuide(s) \/ AppendLog(s) \/ SaveFails(s)
      <4>1. record[s] \in Records
        BY <2>1, <3>1 DEF SaveRecord, SaveGuide, AppendLog, SaveFails, Saving
      <4>. QED
        BY <3>1, <4>1, TypeSaveRecord, TypeSaveGuide, TypeAppendLog, TypeSaveFails
    <3>. QED
      BY <1>1, <3>1, TypeStart, TypeCheckpoint, TypeStat, TypeWrite, TypeWriteFails, TypeDiff,
         TypeDiffFails, TypeTest, TypeTestFails DEF Step
  <2>3. SavedInOrder'
    <3>1. ASSUME NEW r \in Runs PROVE RecordHeld(r)' /\ FilesFollow(r)' /\ LoggedLast(r)'
      <4>1. RecordHeld(r) /\ FilesFollow(r) /\ LoggedLast(r) /\ RecordHeld(s)
        BY DEF SavedInOrder
      <4>. QED
        BY <1>1, <4>1, SavedOwnStep, SavedOtherStep
    <3>. QED
      BY <3>1 DEF SavedInOrder
  <2>4. InScope'
    <3>1. ASSUME NEW r \in Runs PROVE ScopeOf(r)'
      BY <1>1, ScopeOwnStep, ScopeOtherStep DEF InScope
    <3>. QED
      BY <3>1 DEF InScope
  <2>5. \A r \in Runs : ConsumedAfter(r)'
    BY <1>1, ConsumedStep
  <2>6. Truthful'
    <3>1. ASSUME NEW r \in Runs PROVE Progress(r)' /\ Claims(r)'
      <4>1. Progress(r) /\ Claims(r) /\ ConsumedAfter(r)
        BY DEF Truthful
      <4>. QED
        BY <1>1, <4>1, TruthfulOwnStep, TruthfulOtherStep
    <3>. QED
      BY <3>1 DEF Truthful
  <2>. QED
    BY <2>2, <2>3, <2>4, <2>5, <2>6
<1>2. ASSUME Expire \/ (\E f \in Files : Edit(f)) \/ UNCHANGED vars PROVE IInv'
  <2>1. TypeOK'
    BY <1>2, TypeExpire, TypeEdit, TypeStutter
  <2>2. UNCHANGED <<pc, approval, record, disk, log, todo, touched, approved, plan, trouble, code, test>>
    BY <1>2 DEF Expire, Edit, vars, files, locals, outside
  <2>3. SavedInOrder'
    BY <2>2 DEF SavedInOrder, RecordHeld, FilesFollow, LoggedLast
  <2>4. InScope'
    BY <2>2 DEF InScope, ScopeOf, Scope
  <2>5. \A r \in Runs : ConsumedAfter(r)'
    BY <2>2 DEF ConsumedAfter, Executes
  <2>6. Truthful'
    <3>1. ASSUME NEW r \in Runs PROVE Progress(r)' /\ Claims(r)'
      <4>1. \A f \in latest[r]' : f \in latest[r] /\ work'[f] = work[f]
        BY <1>2, OthersSpare DEF Expire, vars, files
      <4>2. Progress(r) /\ Claims(r)
        BY DEF Truthful
      <4>. QED
        BY <2>2, <4>1, <4>2, TruthfulOthers
    <3>. QED
      BY <3>1 DEF Truthful
  <2>. QED
    BY <2>1, <2>3, <2>4, <2>5, <2>6
<1>. QED
  BY <1>1, <1>2 DEF Next

\* Every variable keeps its type.
THEOREM Typing == Spec => []TypeOK
<1>1. IInv => TypeOK
  BY DEF IInv
<1>. QED
  BY <1>1, IInvInit, IInvNext, PTL DEF Spec

\* Whatever runs overlap, whatever fails and whatever a developer edits, a run
\* changes only files the approved plan targets, none forbidden or sensitive.
THEOREM WritesStayInScope == Spec => []ScopeKept
<1>1. IInv => ScopeKept
  BY DEF IInv, InScope, ScopeOf, Scope, ScopeKept
<1>. QED
  BY <1>1, IInvInit, IInvNext, PTL DEF Spec

\* A call that returns has left its record, its guide and its log line.
THEOREM ReturnsAreRecorded == Spec => []ReturnedIsRecorded
<1>1. IInv => ReturnedIsRecorded
  BY DEF IInv, SavedInOrder, RecordHeld, FilesFollow, LoggedLast, ReturnedIsRecorded
<1>. QED
  BY <1>1, IInvInit, IInvNext, PTL DEF Spec

\* With one run at a time, the approval is used once.
LEMMA SerialNext == ASSUME ~Overlap PROVE IInv /\ SerialUse /\ [Next]_vars => IInv' /\ SerialUse'
<1>. SUFFICES ASSUME IInv, SerialUse, [Next]_vars PROVE SerialUse'
  BY IInvNext
<1>1. TypeOK
  BY DEF IInv
<1>2. ASSUME NEW r \in Runs, Start(r) \/ Step(r) PROVE SerialUse'
  BY <1>1, <1>2, SerialStart, SerialStep
<1>3. ASSUME Expire \/ (\E f \in Files : Edit(f)) \/ UNCHANGED vars PROVE SerialUse'
  <2>1. UNCHANGED <<pc, record, approval>>
    BY <1>3 DEF Expire, Edit, vars, locals
  <2>. QED
    BY <2>1 DEF SerialUse, OneAtATime, ApprovalUsed, ConsumedAfter, SingleUse, Ended, Executes
<1>. QED
  BY <1>2, <1>3 DEF Next

\* One approval lets one run execute, if runs do not overlap.
THEOREM SerialSingleUse == ASSUME ~Overlap PROVE Spec => []SingleUse
<1>1. Init => IInv /\ SerialUse
  BY IInvInit, SerialInit
<1>2. IInv /\ SerialUse => SingleUse
  BY DEF SerialUse
<1>. QED
  BY <1>1, <1>2, SerialNext, PTL DEF Spec

\* However runs overlap, whatever fails and whatever a developer edits, an executed
\* record on disk means that every operation of the plan was done, that the tests
\* passed, and that what nobody else changed since is as the plan says.
THEOREM ExecutedThoughShared == Spec => []ExecutedUnlessChanged
<1>1. IInv => ExecutedUnlessChanged
  <2>. SUFFICES ASSUME TypeOK, Truthful, NEW r \in Runs, disk[r].record.status = "executed"
                PROVE  /\ test[r].status = "passed"
                       /\ \A i \in DOMAIN plan[r].ops :
                            LET f == plan[r].ops[i].file IN
                              /\ f \in touched[r]
                              /\ f \in latest[r] => work[f] = LastContent(plan[r].ops, f)
    BY DEF ExecutedUnlessChanged, IInv
  <2>1. plan[r] \in Plans /\ test[r].status = "passed" /\ AllDone(r)
    BY DEF Truthful, Claims
  <2>. QED
    BY <2>1, PlanOps, AllDoneMeans DEF AllDone
<1>. QED
  BY <1>1, IInvInit, IInvNext, PTL DEF Spec

\* While one run executes nobody else changes a file.
Sole(r) == IF Executes(r) THEN touched[r] \subseteq latest[r] ELSE touched[r] = {}

LEMMA SoleInit == Init => \A r \in Runs : Sole(r)
BY SMTT(30) DEF Init, Sole

LEMMA SoleOwnStep ==
  ASSUME TypeOK, NEW r \in Runs, ConsumedAfter(r), Sole(r), Start(r) \/ Step(r)
  PROVE  Sole(r)'
<1>0. /\ r \in DOMAIN touched /\ r \in DOMAIN latest /\ touched \in [Runs -> SUBSET Files]
      /\ latest \in [Runs -> SUBSET Files]
  BY DEF TypeOK, ResultTypes
<1>1. CASE UNCHANGED <<touched, latest>>
  <2>1. Step(r) => (Executes(r)' <=> Executes(r))
    BY OwnStep
  <2>2. Start(r) => touched[r] = {}
    BY OwnStart DEF Sole
  <2>. QED
    BY <1>1, <2>1, <2>2 DEF Sole
<1>2. CASE (Write(r) \/ WriteFails(r)) /\ Touch(r, Head(todo[r]).file)
  <2>1. Executes(r) /\ Executes(r)'
    <3>1. pc[r] = "write" /\ record[r] = NoRecord
      BY <1>2 DEF Write, WriteFails, ConsumedAfter, Executing
    <3>2. Executes(r)
      BY <3>1, NoRecordIsOpen DEF Executes
    <3>. QED
      BY <1>2, <3>2, OwnStep DEF Step
  <2>2. /\ touched[r]' = touched[r] \union {Head(todo[r]).file}
        /\ latest[r]' = latest[r] \union {Head(todo[r]).file}
    BY <1>0, <1>2 DEF Touch
  <2>. QED
    BY <2>1, <2>2 DEF Sole
<1>. QED
  BY <1>1, <1>2 DEF Start, Step, Checkpoint, Stat, Write, WriteFails, Diff, DiffFails, Test, TestFails,
     SaveRecord, SaveGuide, AppendLog, SaveFails, files

LEMMA SoleOtherStep ==
  ASSUME TypeOK, SerialUse, NEW r \in Runs, NEW s \in Runs \ {r}, Start(s) \/ Step(s), Sole(r)
  PROVE  Sole(r)'
<1>1. pc[r]' = pc[r] /\ record[r]' = record[r] /\ touched[r]' = touched[r]
  BY StepIsLocal DEF Same
<1>2. Executes(r) => latest' = latest
  <2>1. ASSUME pc[s] = "write" PROVE Executes(s)
    BY <2>1, NoRecordIsOpen DEF SerialUse, ApprovalUsed, ConsumedAfter, Executes, Executing
  <2>2. latest' = latest \/ pc[s] = "write"
    BY DEF Step, Start, Checkpoint, Stat, Write, WriteFails, Diff, DiffFails, Test, TestFails, SaveRecord,
           SaveGuide, AppendLog, SaveFails, files
  <2>. QED
    BY <2>1, <2>2 DEF SerialUse, SingleUse
<1>. QED
  BY <1>1, <1>2 DEF Sole, Executes

LEMMA SoleNext ==
  ASSUME ~Overlap, MaxEdits = 0, IInv, SerialUse, \A r \in Runs : Sole(r), [Next]_vars
  PROVE  \A r \in Runs : Sole(r)'
<1>1. ASSUME NEW s \in Runs, NEW r \in Runs, Start(s) \/ Step(s) PROVE Sole(r)'
  BY <1>1, SoleOwnStep, SoleOtherStep DEF IInv
<1>2. ASSUME Expire \/ UNCHANGED vars PROVE \A r \in Runs : Sole(r)'
  <2>1. UNCHANGED <<pc, record, touched, latest>>
    BY <1>2 DEF Expire, vars, files, locals
  <2>. QED
    BY <2>1 DEF Sole, Executes
<1>3. \A f \in Files : ~Edit(f)
  BY DEF Edit, IInv, TypeOK, SharedTypes
<1>. QED
  BY <1>1, <1>2, <1>3 DEF Next

\* While runs do not overlap and nobody edits, one approval lets one run execute, and
\* an executed record on disk means that every operation of the plan was done, that
\* the tests passed, and that what the plan wrote is still there, whatever failed and
\* had to be saved twice.
THEOREM ExecutedMeansDone == ASSUME ~Overlap, MaxEdits = 0 PROVE Spec => []OneExecutionDone
<1>. DEFINE Alone == \A r \in Runs : Sole(r)
<1>1. Init => IInv /\ SerialUse /\ Alone
  BY IInvInit, SerialInit, SoleInit
<1>2. IInv /\ SerialUse /\ Alone /\ [Next]_vars => IInv' /\ SerialUse' /\ Alone'
  BY SerialNext, SoleNext
<1>3. IInv /\ SerialUse /\ Alone => OneExecutionDone
  <2>. SUFFICES ASSUME TypeOK, Truthful, Alone, NEW r \in Runs, disk[r].record.status = "executed"
                PROVE  /\ test[r].status = "passed"
                       /\ \A i \in DOMAIN plan[r].ops :
                            LET f == plan[r].ops[i].file IN
                              f \in touched[r] /\ work[f] = LastContent(plan[r].ops, f)
    BY DEF OneExecutionDone, ExecutedIsDone, SerialUse, IInv
  <2>1. plan[r] \in Plans /\ test[r].status = "passed" /\ AllDone(r) /\ Executes(r)
    BY DEF Truthful, Claims
  <2>2. touched[r] \subseteq latest[r]
    BY <2>1 DEF Sole
  <2>. QED
    BY <2>1, <2>2, PlanOps, AllDoneMeans DEF AllDone
<1>. QED
  BY <1>1, <1>2, <1>3, PTL DEF Spec

\* With overlap too, an approval that one execution has come out of starts no other.
THEOREM ApprovalNeverReused == Spec => OnlyWhileExecuting
<1>1. IInv /\ [Next]_vars =>
        (\A r \in Runs : ~Executes(r) /\ Executes(r)' =>
           \A s \in Runs : Executes(s) => pc[s] \in Executing)
  <2>. SUFFICES ASSUME TypeOK, \A s \in Runs : ConsumedAfter(s), [Next]_vars, NEW r \in Runs,
                       ~Executes(r), Executes(r)', NEW s \in Runs, Executes(s)
                PROVE  pc[s] \in Executing
    BY DEF IInv
  <2>1. Start(r)
    <3>1. ASSUME NEW t \in Runs, t # r, Start(t) \/ Step(t) PROVE FALSE
      BY <3>1, StepIsLocal DEF Same, Executes
    <3>2. ~Step(r)
      BY OwnStep
    <3>3. ~(Expire \/ (\E f \in Files : Edit(f)) \/ UNCHANGED vars)
      BY DEF Expire, Edit, vars, locals, Executes
    <3>. QED
      BY <3>1, <3>2, <3>3 DEF Next
  <2>2. approval = "approved"
    BY <2>1, OwnStart
  <2>. QED
    BY <2>2 DEF ConsumedAfter
<1>. QED
  BY <1>1, IInvInit, IInvNext, PTL DEF Spec, OnlyWhileExecuting

-----------------------------------------------------------------------------
(* Files that exist are not created, while runs do not overlap and nobody  *)
(* edits: what stat saw, where it did not fail, still holds at the write.  *)

Unseen(r, f) == work[f] = Absent \/ f \in missed[r]
Checked(r) ==
  pc[r] = "write" /\ Head(todo[r]).kind = "create" => Unseen(r, Head(todo[r]).file)

LEMMA CheckedOwnStep ==
  ASSUME TypeOK, NEW r \in Runs, Start(r) \/ Step(r)
  PROVE  Checked(r)'
<1>1. r \in DOMAIN pc /\ r \in DOMAIN missed
  BY DEF TypeOK, ControlTypes, ResultTypes
<1>2. CASE Stat(r)
  <2>1. work' = work /\ pc[r] = "stat"
    BY <1>2, StatOutcome DEF files
  <2>2. CASE pc' = pc
    BY <2>1, <2>2 DEF Checked
  <2>3. CASE /\ UNCHANGED <<todo, missed>>
             /\ ~(Head(todo[r]).kind = "create" /\ work[Head(todo[r]).file] # Absent)
    BY <2>1, <2>3 DEF Checked, Unseen
  <2>4. CASE todo' = todo /\ missed' = [missed EXCEPT ![r] = @ \union {Head(todo[r]).file}]
    <3>1. Head(todo[r]).file \in missed'[r]
      BY <1>1, <2>4
    <3>. QED
      BY <2>4, <3>1 DEF Checked, Unseen
  <2>. QED
    BY <1>2, <2>2, <2>3, <2>4, StatOutcome
<1>3. CASE ~Stat(r)
  <2>1. pc'[r] # "write"
    BY <1>1, <1>3 DEF Step, Start, Checkpoint, Write, WriteFails, Diff, DiffFails, Test, TestFails,
       Caught, SaveRecord, SaveGuide, AppendLog, SaveFails
  <2>. QED
    BY <2>1 DEF Checked
<1>. QED
  BY <1>2, <1>3

LEMMA CheckedOthers ==
  ASSUME TypeOK, SerialUse, ~Overlap, NEW r \in Runs, NEW s \in Runs \ {r}, Start(s) \/ Step(s),
         Checked(r)
  PROVE  Checked(r)'
<1>1. pc[r]' = pc[r] /\ todo[r]' = todo[r] /\ missed[r]' = missed[r]
  BY StepIsLocal DEF Same
<1>2. pc[s] = "write" => pc[r] # "write"
  BY DEF SerialUse, OneAtATime, Ended
<1>3. work' = work \/ pc[s] = "write"
  BY WorkIsWritten
<1>. QED
  BY <1>1, <1>2, <1>3 DEF Checked, Unseen

LEMMA CheckedNext ==
  ASSUME ~Overlap, MaxEdits = 0, TypeOK, SerialUse, \A r \in Runs : Checked(r), [Next]_vars
  PROVE  \A r \in Runs : Checked(r)'
<1>1. ASSUME NEW s \in Runs, NEW r \in Runs, Start(s) \/ Step(s) PROVE Checked(r)'
  BY <1>1, CheckedOwnStep, CheckedOthers
<1>2. ASSUME Expire \/ UNCHANGED vars PROVE \A r \in Runs : Checked(r)'
  <2>1. UNCHANGED <<pc, todo, work, missed>>
    BY <1>2 DEF Expire, vars, files, locals
  <2>. QED
    BY <2>1 DEF Checked, Unseen
<1>3. \A f \in Files : ~Edit(f)
  BY DEF Edit, TypeOK, SharedTypes
<1>. QED
  BY <1>1, <1>2, <1>3 DEF Next

\* A file is changed only by the write of the operation at the head of the list.
LEMMA TouchedByWrites ==
  ASSUME TypeOK, [Next]_vars, NEW r \in Runs, touched'[r] # touched[r]
  PROVE  pc[r] = "write"
<1>1. ASSUME NEW s \in Runs, Start(s) \/ Step(s) PROVE pc[r] = "write"
  <2>1. CASE s = r
    BY <1>1, <2>1 DEF Step, Start, Checkpoint, Stat, Write, WriteFails, Diff, DiffFails, Test, TestFails,
       SaveRecord, SaveGuide, AppendLog, SaveFails, files
  <2>2. CASE s # r
    BY <1>1, <2>2, StepIsLocal DEF Same
  <2>. QED
    BY <2>1, <2>2
<1>. QED
  BY <1>1 DEF Next, Expire, Edit, vars, files

\* While runs do not overlap and nobody edits, an operation that creates a file overwrites
\* one only where its stat failed and exists() said that there was none, whatever other
\* call fails.
THEOREM CreatesTrustStat ==
  ASSUME ~Overlap, MaxEdits = 0
  PROVE  Spec => [][\A r \in Runs : touched'[r] # touched[r] /\ Head(todo[r]).kind = "create"
                      => \/ work[Head(todo[r]).file] = Absent
                         \/ Head(todo[r]).file \in missed[r]]_vars
<1>. DEFINE Seen == \A r \in Runs : Checked(r)
<1>1. Init => IInv /\ SerialUse /\ Seen
  <2>1. Init => Seen
    BY DEF Init, Checked
  <2>. QED
    BY <2>1, IInvInit, SerialInit
<1>2. IInv /\ SerialUse /\ Seen /\ [Next]_vars => IInv' /\ SerialUse' /\ Seen'
  <2>1. IInv /\ SerialUse /\ Seen /\ [Next]_vars => Seen'
    BY CheckedNext DEF IInv
  <2>. QED
    BY <2>1, SerialNext
<1>3. IInv /\ SerialUse /\ Seen /\ [Next]_vars =>
        (\A r \in Runs : touched'[r] # touched[r] /\ Head(todo[r]).kind = "create"
                           => \/ work[Head(todo[r]).file] = Absent
                              \/ Head(todo[r]).file \in missed[r])
  <2>. SUFFICES ASSUME TypeOK, Seen, [Next]_vars, NEW r \in Runs,
                       touched'[r] # touched[r], Head(todo[r]).kind = "create"
                PROVE  Unseen(r, Head(todo[r]).file)
    BY DEF IInv, Unseen
  <2>1. pc[r] = "write" /\ Checked(r)
    BY TouchedByWrites
  <2>. QED
    BY <2>1 DEF Checked
<1>. QED
  BY <1>1, <1>2, <1>3, PTL DEF Spec

\* Where runs overlap and a developer edits, what stat saw no longer holds only because
\* one of them changed the file.
Overtaken(r, f) == edits # 0 \/ \E s \in Runs \ {r} : f \in latest[s]
CheckedOrOvertaken(r) ==
  pc[r] = "write" /\ Head(todo[r]).kind = "create"
    => Unseen(r, Head(todo[r]).file) \/ Overtaken(r, Head(todo[r]).file)

LEMMA WorkIsTouched ==
  ASSUME NEW s \in Runs, Start(s) \/ Step(s)
  PROVE  \/ UNCHANGED <<work, latest>>
         \/ \E g, c : work' = [work EXCEPT ![g] = c] /\ Touch(s, g)
<1>1. CASE Write(s)
  BY <1>1 DEF Write
<1>2. CASE WriteFails(s)
  BY <1>2 DEF WriteFails, files
<1>3. CASE ~Write(s) /\ ~WriteFails(s)
  BY <1>3 DEF Step, Start, Checkpoint, Stat, Diff, DiffFails, Test, TestFails, SaveRecord, SaveGuide,
     AppendLog, SaveFails, files
<1>. QED
  BY <1>1, <1>2, <1>3

LEMMA OvertakenByOthers ==
  ASSUME TypeOK, NEW r \in Runs, NEW s \in Runs \ {r}, Start(s) \/ Step(s),
         CheckedOrOvertaken(r)
  PROVE  CheckedOrOvertaken(r)'
<1>. DEFINE f == Head(todo[r]).file
<1>1. pc[r]' = pc[r] /\ todo[r]' = todo[r] /\ missed[r]' = missed[r]
  BY StepIsLocal DEF Same
<1>. SUFFICES ASSUME pc[r] = "write", Head(todo[r]).kind = "create"
              PROVE  Unseen(r, f)' \/ Overtaken(r, f)'
  BY <1>1 DEF CheckedOrOvertaken
<1>2. f \in Files /\ DOMAIN work = Files /\ (Unseen(r, f) \/ Overtaken(r, f))
  BY Heads DEF TypeOK, ControlTypes, SharedTypes, CheckedOrOvertaken
<1>3. edits' = edits
  BY DEF Step, Start, Checkpoint, Stat, Write, WriteFails, Diff, DiffFails, Test, TestFails,
     SaveRecord, SaveGuide, AppendLog, SaveFails
<1>. HIDE DEF f
<1>4. CASE UNCHANGED <<work, latest>>
  BY <1>1, <1>2, <1>3, <1>4 DEF Overtaken, Unseen, f
<1>5. ASSUME NEW g, NEW c, work' = [work EXCEPT ![g] = c], Touch(s, g)
      PROVE  Unseen(r, f)' \/ Overtaken(r, f)'
  <2>1. \A u \in Runs : latest'[u] = IF u = s THEN latest[u] \union {g} ELSE latest[u] \ {g}
    BY <1>5 DEF Touch
  <2>2. f' = f
    BY <1>1 DEF f
  <2>3. CASE f = g
    BY <2>1, <2>2, <2>3 DEF Overtaken
  <2>4. CASE f # g
    <3>1. work'[f] = work[f]
      BY <1>2, <1>5, <2>4
    <3>2. \A u \in Runs : f \in latest[u] => f \in latest'[u]
      BY <2>1, <2>4
    <3>. QED
      BY <1>1, <1>2, <1>3, <2>2, <3>1, <3>2 DEF Overtaken, Unseen
  <2>. QED
    BY <2>3, <2>4
<1>. QED
  BY <1>4, <1>5, WorkIsTouched

LEMMA CheckedOrOvertakenNext ==
  ASSUME TypeOK, \A r \in Runs : CheckedOrOvertaken(r), [Next]_vars
  PROVE  \A r \in Runs : CheckedOrOvertaken(r)'
<1>1. ASSUME NEW s \in Runs, NEW r \in Runs, Start(s) \/ Step(s) PROVE CheckedOrOvertaken(r)'
  <2>1. CASE s = r
    BY <1>1, <2>1, CheckedOwnStep DEF Checked, CheckedOrOvertaken
  <2>2. CASE s # r
    BY <1>1, <2>2, OvertakenByOthers
  <2>. QED
    BY <2>1, <2>2
<1>2. ASSUME NEW f \in Files, Edit(f), NEW r \in Runs PROVE CheckedOrOvertaken(r)'
  <2>1. edits' = edits + 1 /\ edits \in Nat
    BY <1>2, ExecutionAssumption DEF Edit, TypeOK, SharedTypes
  <2>2. edits' # 0
    BY <2>1
  <2>. QED
    BY <2>2 DEF CheckedOrOvertaken, Overtaken
<1>3. ASSUME Expire \/ UNCHANGED vars PROVE \A r \in Runs : CheckedOrOvertaken(r)'
  <2>1. UNCHANGED <<pc, todo, work, missed, latest, edits>>
    BY <1>3 DEF Expire, vars, files, locals
  <2>. QED
    BY <2>1 DEF CheckedOrOvertaken, Overtaken, Unseen
<1>. QED
  BY <1>1, <1>2, <1>3 DEF Next

\* However runs overlap and whatever fails, an operation that creates a file overwrites
\* one that exists only where its own stat failed, another run has written it since, or a
\* developer was at work.
THEOREM CreatesOverwriteOnlyNews == Spec => CreatesSpareWhatWas
<1>. DEFINE Seen == \A r \in Runs : CheckedOrOvertaken(r)
<1>1. Init => IInv /\ Seen
  <2>1. Init => Seen
    BY DEF Init, CheckedOrOvertaken
  <2>. QED
    BY <2>1, IInvInit
<1>2. IInv /\ Seen /\ [Next]_vars => IInv' /\ Seen'
  <2>1. IInv /\ Seen /\ [Next]_vars => Seen'
    BY CheckedOrOvertakenNext DEF IInv
  <2>. QED
    BY <2>1, IInvNext
<1>3. IInv /\ Seen /\ [Next]_vars =>
        (\A r \in Runs : touched'[r] # touched[r] /\ Head(todo[r]).kind = "create"
           => LET f == Head(todo[r]).file IN
                \/ work[f] = Absent \/ f \in missed[r]
                \/ edits # 0 \/ \E s \in Runs \ {r} : f \in latest[s])
  <2>. SUFFICES ASSUME TypeOK, Seen, [Next]_vars, NEW r \in Runs,
                       touched'[r] # touched[r], Head(todo[r]).kind = "create"
                PROVE  Unseen(r, Head(todo[r]).file) \/ Overtaken(r, Head(todo[r]).file)
    BY DEF IInv, Overtaken, Unseen
  <2>1. pc[r] = "write" /\ CheckedOrOvertaken(r)
    BY TouchedByWrites
  <2>. QED
    BY <2>1 DEF CheckedOrOvertaken
<1>. QED
  BY <1>1, <1>2, <1>3, PTL DEF Spec, CreatesSpareWhatWas
-----------------------------------------------------------------------------
(* A run that moves gets nearer to its end.                                *)

\* What one run has of its own, all of which only its own steps change.
Own(r) ==
  <<pc[r], todo[r], before[r], written[r], trouble[r], code[r], test[r], record[r], retried[r],
    disk[r], touched[r]>>

LEMMA OthersLeaveOwn ==
  ASSUME TypeOK, NEW r \in Runs, NEW s \in Runs \ {r}, Start(s) \/ Step(s)
  PROVE  Own(r)' = Own(r)
<1>1. /\ pc[r]' = pc[r] /\ record[r]' = record[r] /\ disk[r]' = disk[r]
      /\ todo[r]' = todo[r] /\ touched[r]' = touched[r]
      /\ trouble[r]' = trouble[r] /\ code[r]' = code[r] /\ test[r]' = test[r]
  BY StepIsLocal, OthersAreLocal DEF Same
<1>2. before[r]' = before[r] /\ written[r]' = written[r] /\ retried[r]' = retried[r]
  <2>0. r \in DOMAIN before /\ r \in DOMAIN written /\ r \in DOMAIN retried
    BY DEF TypeOK, ResultTypes, SavedTypes
  <2>1. CASE Start(s) \/ Checkpoint(s) \/ Stat(s) \/ Write(s) \/ WriteFails(s) \/ Diff(s)
    BY <2>0, <2>1 DEF Start, Checkpoint, Stat, Write, WriteFails, Diff
  <2>2. CASE DiffFails(s) \/ TestFails(s) \/ \E result \in {"passed", "failed"} : Test(s, result)
    BY <2>0, <2>2 DEF DiffFails, TestFails, Test, Caught
  <2>3. CASE SaveRecord(s) \/ SaveGuide(s) \/ AppendLog(s) \/ SaveFails(s)
    BY <2>0, <2>3 DEF SaveRecord, SaveGuide, AppendLog, SaveFails, Caught, locals
  <2>. QED
    BY <2>1, <2>2, <2>3 DEF Step
<1>. QED
  BY <1>1, <1>2 DEF Own

\* The operations of a run, counted before and after one is over.
LEMMA OneLess ==
  ASSUME TypeOK, NEW r \in Runs
  PROVE  /\ Len(todo[r]) \in Nat
         /\ todo[r] # << >> => Len(todo[r]) >= 1 /\ Len(Tail(todo[r])) = Len(todo[r]) - 1
<1>1. todo[r] \in Seq(Operations)
  BY DEF TypeOK, ControlTypes
<1>. QED
  BY <1>1

\* What is left at each call of an execution, now and next.
LEMMA ExecutingCalls ==
  ASSUME NEW r \in Runs, NEW p \in Executing
  PROVE  /\ CallsFrom[p] \in 7..9
         /\ pc[r] = p => CallsLeft(r) = CallsFrom[p] + 2 * Len(todo[r])
         /\ pc[r]' = p => CallsLeft(r)' = CallsFrom[p] + 2 * Len(todo[r]')
<1>1. CallsFrom[p] \in 7..9
  BY DEF CallsFrom, Executing
<1>2. pc[r] = p => CallsLeft(r) = CallsFrom[p] + 2 * Len(todo[r])
  BY DEF CallsLeft
<1>3. pc[r]' = p => CallsLeft(r)' = CallsFrom[p] + 2 * Len(todo[r]')
  BY DEF CallsLeft
<1>. QED
  BY <1>1, <1>2, <1>3

LEMMA Counted ==
  /\ CallsFrom["checkpoint"] = 9 /\ CallsFrom["stat"] = 8 /\ CallsFrom["write"] = 7
  /\ CallsFrom["test"] = 7
  /\ {"checkpoint", "stat", "write", "test"} = Executing
BY DEF CallsFrom, Executing

\* While a run executes, every call takes one off.
LEMMA ExecutingRunsOut ==
  ASSUME TypeOK, NEW r \in Runs, Checkpoint(r) \/ Stat(r) \/ Write(r) \/ WriteFails(r) \/ Diff(r)
  PROVE  CallsLeft(r)' < CallsLeft(r)
<1>0. r \in DOMAIN pc /\ r \in DOMAIN todo
  BY DEF TypeOK, ControlTypes
<1>1. CASE Checkpoint(r)
  <2>1. pc[r] = "checkpoint" /\ pc'[r] = "stat" /\ todo'[r] = todo[r]
    BY <1>0, <1>1 DEF Checkpoint
  <2>2. CallsLeft(r) = 9 + 2 * Len(todo[r]) /\ CallsLeft(r)' = 8 + 2 * Len(todo[r])
    BY <2>1, ExecutingCalls, Counted
  <2>. QED
    BY <2>2, OneLess
<1>2. CASE Stat(r)
  <2>1. pc[r] = "stat" /\ todo[r] # << >>
    BY <1>2 DEF Stat
  <2>2. \/ pc'[r] = "write" /\ todo'[r] = todo[r]
        \/ pc'[r] = "stat" /\ todo'[r] = Tail(todo[r])
    BY <1>0, <1>2, StatOutcome
  <2>3. CallsLeft(r) = 8 + 2 * Len(todo[r])
    BY <2>1, ExecutingCalls, Counted
  <2>4. CallsLeft(r)' \in {7 + 2 * Len(todo[r]), 8 + 2 * Len(Tail(todo[r]))}
    BY <2>2, ExecutingCalls, Counted
  <2>. QED
    BY <2>1, <2>3, <2>4, OneLess
<1>3. CASE Write(r) \/ WriteFails(r)
  <2>1. pc[r] = "write" /\ todo[r] # << >>
    BY <1>3 DEF Write, WriteFails, TypeOK, ControlTypes
  <2>2. pc'[r] = "stat" /\ todo'[r] = Tail(todo[r])
    BY <1>0, <1>3 DEF Write, WriteFails
  <2>3. CallsLeft(r) = 7 + 2 * Len(todo[r]) /\ CallsLeft(r)' = 8 + 2 * Len(Tail(todo[r]))
    BY <2>1, <2>2, ExecutingCalls, Counted
  <2>. QED
    BY <2>1, <2>3, OneLess
<1>4. CASE Diff(r)
  <2>1. pc[r] = "stat" /\ pc'[r] = "test" /\ todo'[r] = todo[r]
    BY <1>0, <1>4 DEF Diff
  <2>2. CallsLeft(r) = 8 + 2 * Len(todo[r]) /\ CallsLeft(r)' = 7 + 2 * Len(todo[r])
    BY <2>1, ExecutingCalls, Counted
  <2>. QED
    BY <2>2, OneLess
<1>. QED
  BY <1>1, <1>2, <1>3, <1>4

\* A save has three calls, and is begun again once.
SavesLeft(p, again) ==
  (IF p = "record" THEN 3 ELSE IF p = "guide" THEN 2 ELSE 1) + (IF again THEN 0 ELSE 3)

LEMMA SavingCalls ==
  ASSUME NEW r \in Runs
  PROVE  /\ pc[r] \in Saving => CallsLeft(r) = SavesLeft(pc[r], retried[r])
         /\ pc[r]' \in Saving => CallsLeft(r)' = SavesLeft(pc[r]', retried[r]')
<1>1. ASSUME NEW p \in Saving, NEW again, NEW n, n = CallsFrom[p] + (IF again THEN 0 ELSE 3)
      PROVE  n = SavesLeft(p, again)
  BY <1>1 DEF CallsFrom, SavesLeft, Saving
<1>2. pc[r] \in Saving => CallsLeft(r) = CallsFrom[pc[r]] + (IF retried[r] THEN 0 ELSE 3)
  BY DEF CallsLeft, Executing, Saving
<1>3. pc[r]' \in Saving => CallsLeft(r)' = CallsFrom[pc[r]'] + (IF retried[r]' THEN 0 ELSE 3)
  BY DEF CallsLeft, Executing, Saving
<1>. QED
  BY <1>1, <1>2, <1>3

\* The results, and whatever throws before them, lead to the save.
LEMMA ResultsRunOut ==
  ASSUME TypeOK, NEW r \in Runs,
         DiffFails(r) \/ TestFails(r) \/ \E result \in {"passed", "failed"} : Test(r, result)
  PROVE  CallsLeft(r)' < CallsLeft(r)
<1>0. r \in DOMAIN pc /\ r \in DOMAIN retried /\ retried[r] \in BOOLEAN
  BY DEF TypeOK, ControlTypes, SavedTypes
<1>1. pc[r]' = "record"
  BY <1>0 DEF DiffFails, TestFails, Test, Caught
<1>2. CallsLeft(r)' <= 6
  <2>1. CallsLeft(r)' = SavesLeft("record", retried[r]')
    BY <1>1, SavingCalls DEF Saving
  <2>. QED
    BY <2>1 DEF SavesLeft
<1>3. pc[r] = "stat" \/ pc[r] = "test"
  BY DEF DiffFails, TestFails, Test
<1>4. CallsLeft(r) \in {8 + 2 * Len(todo[r]), 7 + 2 * Len(todo[r])}
  BY <1>3, ExecutingCalls, Counted
<1>5. CallsLeft(r)' \in Int
  <2>1. CallsLeft(r)' = SavesLeft("record", retried[r]')
    BY <1>1, SavingCalls DEF Saving
  <2>. QED
    BY <2>1 DEF SavesLeft
<1>. QED
  BY <1>2, <1>4, <1>5, OneLess

LEMMA SavesRunOut ==
  ASSUME TypeOK, NEW r \in Runs, SaveRecord(r) \/ SaveGuide(r) \/ AppendLog(r) \/ SaveFails(r)
  PROVE  CallsLeft(r)' < CallsLeft(r)
<1>0. r \in DOMAIN pc /\ r \in DOMAIN retried
  BY DEF TypeOK, ControlTypes, SavedTypes
<1>1. CASE SaveRecord(r)
  <2>1. /\ pc[r] = "record" /\ pc[r]' \in {"guide", "log"} /\ retried[r]' = retried[r]
    BY <1>0, <1>1 DEF SaveRecord, locals
  <2>2. CallsLeft(r) = SavesLeft("record", retried[r]) /\ CallsLeft(r)' = SavesLeft(pc[r]', retried[r])
    BY <2>1, SavingCalls DEF Saving
  <2>. QED
    BY <2>1, <2>2 DEF SavesLeft
<1>2. CASE SaveGuide(r)
  <2>1. /\ pc[r] = "guide" /\ pc[r]' = "log" /\ retried[r]' = retried[r]
    BY <1>0, <1>2 DEF SaveGuide, locals
  <2>2. CallsLeft(r) = SavesLeft("guide", retried[r]) /\ CallsLeft(r)' = SavesLeft("log", retried[r])
    BY <2>1, SavingCalls DEF Saving
  <2>. QED
    BY <2>2 DEF SavesLeft
<1>3. ASSUME pc[r] \in Saving, pc[r]' \in {"returned", "threw"} PROVE CallsLeft(r)' < CallsLeft(r)
  <2>1. CallsLeft(r) = SavesLeft(pc[r], retried[r])
    BY <1>3, SavingCalls
  <2>2. CallsLeft(r)' = 0
    BY <1>3 DEF CallsLeft, Executing, Saving
  <2>. QED
    BY <2>1, <2>2 DEF SavesLeft
<1>4. CASE AppendLog(r)
  <2>1. pc[r] \in Saving /\ pc[r]' = "returned"
    BY <1>0, <1>4 DEF AppendLog, Saving
  <2>. QED
    BY <1>3, <2>1
<1>5. CASE SaveFails(r)
  <2>1. pc[r] \in Saving
    BY <1>5 DEF SaveFails
  <2>2. CASE pc[r]' = "threw"
    BY <1>3, <2>1, <2>2
  <2>3. CASE ~retried[r] /\ pc[r]' = "record" /\ retried[r]'
    <3>1. CallsLeft(r) = SavesLeft(pc[r], retried[r]) /\ CallsLeft(r)' = SavesLeft("record", retried[r]')
      BY <2>1, <2>3, SavingCalls DEF Saving
    <3>. QED
      BY <2>3, <3>1 DEF SavesLeft
  <2>. QED
    BY <1>0, <1>5, <2>2, <2>3 DEF SaveFails, Caught
<1>. QED
  BY <1>1, <1>2, <1>4, <1>5

\* Whatever fails and whatever others do, a run that moves gets nearer to its end.
THEOREM RunsRunOut == Spec => CallsRunOut
<1>1. IInv /\ [Next]_vars =>
        (\A r \in Runs : pc[r] # "idle" /\ Own(r)' # Own(r) => CallsLeft(r)' < CallsLeft(r))
  <2>. SUFFICES ASSUME TypeOK, [Next]_vars, NEW r \in Runs, pc[r] # "idle", Own(r)' # Own(r)
                PROVE  CallsLeft(r)' < CallsLeft(r)
    BY DEF IInv
  <2>1. ~(Expire \/ (\E f \in Files : Edit(f)) \/ UNCHANGED vars)
    BY DEF Expire, Edit, vars, locals, files, Own
  <2>2. Start(r) \/ Step(r)
    BY <2>1, OthersLeaveOwn DEF Next
  <2>3. Step(r)
    BY <2>2 DEF Start
  <2>. QED
    BY <2>3, ExecutingRunsOut, ResultsRunOut, SavesRunOut DEF Step
<1>2. (\A r \in Runs : pc[r] # "idle" /\ Own(r)' # Own(r) => CallsLeft(r)' < CallsLeft(r)) =>
        \A r \in Runs :
          /\ pc[r] # "idle"
          /\ <<pc[r], todo[r], before[r], written[r], trouble[r], code[r], test[r], record[r],
               retried[r], disk[r], touched[r]>>' #
             <<pc[r], todo[r], before[r], written[r], trouble[r], code[r], test[r], record[r],
               retried[r], disk[r], touched[r]>>
          => CallsLeft(r)' < CallsLeft(r)
  BY DEF Own
<1>. QED
  BY <1>1, <1>2, IInvInit, IInvNext, PTL DEF Spec, CallsRunOut
=============================================================================
