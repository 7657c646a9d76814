------------------------ MODULE ExternalProject_proofs ------------------------
(***************************************************************************)
(* Proofs about ExternalProject, for every set of source projects, every   *)
(* change that is asked for, all effects of test commands and any number   *)
(* of later edits of the export: what a safe export and a patch that       *)
(* patch:verify passes say of the copy whose tests ran.                    *)
(***************************************************************************)
EXTENDS ExternalProject, TLAPS

-----------------------------------------------------------------------------
(* The inductive invariant.                                                *)

Before == {"start", "imported", "tested", "run"}
Exporting == {"patch", "metadata", "guide", "index", "done", "stopped"}
Described == {"guide", "index", "done", "stopped"}

\* The copy began as what was imported, and the report is of the copy as the tests left
\* it: neither changes once git was asked.
Reported ==
  /\ extPhase # "start" =>
       base = Committed([f \in Files |-> IF f \in Excluded THEN Absent ELSE tree[f]])
  /\ extPhase \in Exporting =>
       report = [changed |-> Dirty(copy), patch |-> GitDiff(copy),
                 deleted |-> {f \in Dirty(copy) : copy[f] = Absent}]

\* The files of the export come in their order, and stay until somebody edits them.
InOrder ==
  /\ exported = [patch |-> exported.patch, metadata |-> exported.metadata,
                 guide |-> exported.guide, index |-> exported.index]
  /\ extEdits \in Nat
  /\ extPhase \in Before \union {"patch"} => exported = NoExport
  /\ extPhase \in {"guide", "index", "done"} /\ extEdits = 0 => exported.metadata = Metadata
  /\ extPhase \in {"metadata", "guide", "index", "done"} /\ extEdits = 0 =>
       exported.patch = report.patch
  /\ extPhase \in {"index", "done"} /\ extEdits = 0 => exported.guide
  /\ exported.index => extPhase = "done"

\* Metadata that exists, in the export or as patch:verify read it, is of the report; and a
\* patch that did not fail is the one git gave.
Told ==
  /\ exported.metadata # NoPatch => extPhase \in Described /\ exported.metadata = Metadata
  /\ patchRecord # NoPatch => extPhase \in Described /\ patchRecord = Metadata
  /\ patchResult # NoPatch =>
       /\ patchRecord # NoPatch
       /\ patchResult.status # "failed" =>
            /\ patchResult.patch = report.patch
            /\ (report.changed \union DOMAIN report.patch)
                 \intersect (patchResult.forbidden \union PatchSensitive) = {}
            /\ patchResult.status = "passed" => report.changed = DOMAIN report.patch

EInv == extPhase \in Before \union Exporting /\ Reported /\ InOrder /\ Told

-----------------------------------------------------------------------------
(* The invariant says what the properties ask.                             *)

\* The report, read back file by file.
LEMMA ReportFacts ==
  ASSUME EInv, extPhase \in Exporting
  PROVE  /\ report.changed = Dirty(copy)
         /\ report.patch = GitDiff(copy)
         /\ report.deleted = {f \in Dirty(copy) : copy[f] = Absent}
         /\ DOMAIN report.patch = {f \in Dirty(copy) : base[f] # Absent}
         /\ \A f \in DOMAIN report.patch : report.patch[f] = copy[f]
         /\ \A f \in Tracked : tree[f] = base[f]
         /\ \A f \in Files : base[f] # Absent => f \notin Ignored
<1>1. /\ report.changed = Dirty(copy) /\ report.patch = GitDiff(copy)
      /\ report.deleted = {f \in Dirty(copy) : copy[f] = Absent}
  BY DEF EInv, Reported
<1>2. /\ \A f \in Tracked : tree[f] = base[f]
      /\ \A f \in Files : base[f] # Absent => f \notin Ignored
  BY DEF EInv, Reported, Exporting, Committed, Tracked
<1> QED BY <1>1, <1>2 DEF GitDiff

\* A patch that leaves a file as the source project had it leaves out a file that the
\* run created.
LEMMA RebuildsFromPatch ==
  ASSUME EInv, patchResult # NoPatch, patchResult.status # "failed"
  PROVE  /\ \A f \in Tracked :
              Applied(patchResult.patch)[f] # copy[f] =>
                f \in Dirty(copy) /\ base[f] = Absent /\ patchResult.status # "passed"
         /\ (Dirty(copy) \union DOMAIN patchResult.patch)
              \intersect (patchResult.forbidden \union PatchSensitive) = {}
<1>1. /\ extPhase \in Exporting /\ patchResult.patch = report.patch
      /\ (report.changed \union DOMAIN report.patch)
           \intersect (patchResult.forbidden \union PatchSensitive) = {}
      /\ patchResult.status = "passed" => report.changed = DOMAIN report.patch
  BY DEF EInv, Told, Described, Exporting
<1>2. ASSUME NEW f \in Tracked, Applied(report.patch)[f] # copy[f]
      PROVE  f \in Dirty(copy) /\ base[f] = Absent /\ patchResult.status # "passed"
  <2>0. f \in Files \ Ignored
    BY DEF Tracked
  <2>1. CASE f \in DOMAIN report.patch
    BY <1>1, <1>2, <2>0, <2>1, ReportFacts DEF Applied
  <2>2. CASE f \notin DOMAIN report.patch
    <3>1. base[f] # copy[f]
      BY <1>1, <1>2, <2>0, <2>2, ReportFacts DEF Applied
    <3>2. f \in Dirty(copy)
      BY <2>0, <3>1 DEF Dirty
    <3> QED BY <1>1, <2>2, <3>2, ReportFacts
  <2> QED BY <2>1, <2>2
<1> QED BY <1>1, <1>2, ReportFacts

LEMMA PassedPatchRebuilds == ASSUME EInv PROVE VerifiedPatchRebuilds
<1> SUFFICES ASSUME patchResult # NoPatch, patchResult.status # "failed",
                    NEW left, left = {f \in Tracked : Applied(patchResult.patch)[f] # copy[f]}
             PROVE  /\ patchResult.status = "passed" => left = {}
                    /\ \A f \in left : base[f] = Absent
                    /\ (left \union DOMAIN patchResult.patch)
                         \intersect (PatchSensitive \union patchResult.forbidden) = {}
  BY DEF VerifiedPatchRebuilds
<1>1. left \subseteq Dirty(copy)
  BY RebuildsFromPatch
<1> QED BY <1>1, RebuildsFromPatch

\* A patch with a change in it changes a file that the commit has.
LEMMA ChangedFile ==
  ASSUME EInv, extPhase \in Exporting, report.patch # << >>
  PROVE  \E f \in Files : copy[f] # base[f] /\ base[f] # Absent
<1>1. DOMAIN report.patch # {}
  <2>1. SUFFICES ASSUME DOMAIN report.patch = {} PROVE report.patch = << >>
    OBVIOUS
  <2>2. report.patch = [f \in {d \in Dirty(copy) : base[d] # Absent} |-> copy[f]]
    BY ReportFacts DEF GitDiff
  <2>3. report.patch \in [1..0 -> {}]
    BY <2>1, <2>2
  <2>4. report.patch \in Seq({}) /\ Len(report.patch) = 0
    BY <2>3
  <2> QED BY <2>4
<1> QED BY <1>1, ReportFacts DEF Dirty

LEMMA SafeExport == ASSUME EInv PROVE SafeExportIsVerified
<1>1. ASSUME exported.metadata # NoPatch, exported.metadata.safe
      PROVE  /\ passed
             /\ \E f \in Files : copy[f] # base[f] /\ base[f] # Absent
             /\ \A f \in Files : base[f] # Absent => copy[f] # Absent
  <2>1. extPhase \in Exporting /\ Safe
    BY <1>1 DEF EInv, Told, Described, Exporting, Metadata
  <2>2. report.patch # << >> /\ report.deleted = {} /\ passed
    BY <2>1 DEF Safe
  <2> QED BY <2>1, <2>2, ReportFacts, ChangedFile DEF Dirty
<1>2. ASSUME exported.index, extEdits = 0
      PROVE  exported.patch = exported.metadata.hash /\ exported.guide
  BY <1>2 DEF EInv, InOrder, Metadata
<1> QED BY <1>1, <1>2 DEF SafeExportIsVerified

-----------------------------------------------------------------------------
(* The steps.                                                              *)

\* The first steps leave the export alone: there is none, and nothing was verified.
LEMMA NoneYet ==
  ASSUME EInv, extPhase \in Before
  PROVE  exported = NoExport /\ exported.metadata = NoPatch
         /\ patchRecord = NoPatch /\ patchResult = NoPatch
  BY DEF EInv, InOrder, Told, Before, Described, NoExport

LEMMA StepBefore ==
  ASSUME EInv,
         \/ \E project \in Trees : Import(project)
         \/ \E effect \in Effects : InitialTest(effect)
         \/ \E effect \in Effects, result \in {"passed", "failed"} : Change(effect, result)
  PROVE  EInv'
<1>1. /\ extPhase \in Before /\ extPhase' \in {"imported", "tested", "run"}
      /\ base' = Committed([f \in Files |-> IF f \in Excluded THEN Absent ELSE tree'[f]])
      /\ UNCHANGED <<report, exported, patchRecord, patchResult, extEdits>>
  BY DEF Import, InitialTest, Change, Before, EInv, Reported
<1>2. exported = NoExport /\ patchRecord = NoPatch /\ patchResult = NoPatch
  BY <1>1, NoneYet
<1>3. Reported'
  BY <1>1 DEF Reported, Exporting, Committed
<1>4. InOrder'
  BY <1>1, <1>2 DEF EInv, InOrder, NoExport, Before
<1>5. Told'
  BY <1>1, <1>2 DEF Told, NoExport
<1> QED BY <1>1, <1>3, <1>4, <1>5 DEF EInv, Before

LEMMA StepCollect == ASSUME EInv, Collect PROVE EInv'
<1>1. exported = NoExport /\ patchRecord = NoPatch /\ patchResult = NoPatch
  BY NoneYet DEF Collect, Before
<1>2. extPhase = "run" /\ extPhase' = "patch"
      /\ UNCHANGED <<tree, base, copy, exported, patchRecord, patchResult, extEdits>>
  BY DEF Collect
<1>3. Reported'
  BY <1>2 DEF Collect, EInv, Reported, Dirty, GitDiff
<1>4. InOrder'
  BY <1>1, <1>2 DEF EInv, InOrder, NoExport, Before
<1>5. Told'
  BY <1>1, <1>2 DEF Told, NoExport
<1> QED BY <1>2, <1>3, <1>4, <1>5 DEF EInv, Exporting

\* What every later step leaves alone.
Settled == UNCHANGED <<tree, base, copy, passed, report>>

LEMMA SettledFacts ==
  ASSUME EInv, Settled, extPhase \in Exporting, extPhase' \in Exporting
  PROVE  Reported' /\ Metadata' = Metadata
<1>1. extPhase # "start" /\ extPhase' # "start"
  BY DEF Exporting
<1>2. Reported'
  BY <1>1 DEF EInv, Reported, Settled, Dirty, GitDiff
<1> QED BY <1>2 DEF Settled, Metadata, Safe

LEMMA StepExport == ASSUME EInv, Export PROVE EInv'
<1> DEFINE saved == [patch |-> exported.patch, metadata |-> exported.metadata,
                     guide |-> exported.guide, index |-> exported.index]
<1>1. /\ Settled /\ extPhase \in Exporting /\ extPhase' \in Exporting
      /\ UNCHANGED <<patchRecord, patchResult, extEdits>> /\ exported = saved
  BY DEF Export, Settled, Exporting, EInv, InOrder
<1>2. Reported' /\ Metadata' = Metadata /\ report' = report
  BY <1>1, SettledFacts DEF Settled
<1>3. CASE extPhase = "patch" /\ exported' = [exported EXCEPT !.patch = report.patch] /\ extPhase' = "metadata"
  <2>1. exported = NoExport
    BY <1>3 DEF EInv, InOrder
  <2>2. exported' = [patch |-> report.patch, metadata |-> NoPatch, guide |-> FALSE, index |-> FALSE]
    BY <1>3, <2>1 DEF NoExport
  <2>3. InOrder'
    BY <1>1, <1>2, <1>3, <2>2 DEF EInv, InOrder, Before
  <2>4. Told'
    BY <1>1, <1>2, <1>3, <2>2 DEF EInv, Told, Described
  <2> QED BY <1>1, <1>2, <2>3, <2>4 DEF EInv
<1>4. CASE extPhase = "metadata" /\ exported' = [exported EXCEPT !.metadata = Metadata] /\ extPhase' = "guide"
  <2>1. exported' = [patch |-> exported.patch, metadata |-> Metadata,
                     guide |-> exported.guide, index |-> exported.index]
    BY <1>1, <1>4
  <2>2. InOrder'
    BY <1>1, <1>2, <1>4, <2>1 DEF EInv, InOrder, Before
  <2>3. Told'
    BY <1>1, <1>2, <1>4, <2>1 DEF EInv, Told, Described
  <2> QED BY <1>1, <1>2, <2>2, <2>3 DEF EInv
<1>5. CASE extPhase = "guide" /\ exported' = [exported EXCEPT !.guide = TRUE] /\ extPhase' = "index"
  <2>1. exported' = [patch |-> exported.patch, metadata |-> exported.metadata,
                     guide |-> TRUE, index |-> exported.index]
    BY <1>1, <1>5
  <2>2. InOrder'
    BY <1>1, <1>2, <1>5, <2>1 DEF EInv, InOrder, Before
  <2>3. Told'
    BY <1>1, <1>2, <1>5, <2>1 DEF EInv, Told, Described
  <2> QED BY <1>1, <1>2, <2>2, <2>3 DEF EInv
<1>6. CASE extPhase = "index" /\ exported' = [exported EXCEPT !.index = TRUE] /\ extPhase' = "done"
  <2>1. exported' = [patch |-> exported.patch, metadata |-> exported.metadata,
                     guide |-> exported.guide, index |-> TRUE]
    BY <1>1, <1>6
  <2>2. InOrder'
    BY <1>1, <1>2, <1>6, <2>1 DEF EInv, InOrder, Before
  <2>3. Told'
    BY <1>1, <1>2, <1>6, <2>1 DEF EInv, Told, Described
  <2> QED BY <1>1, <1>2, <2>2, <2>3 DEF EInv
<1> QED BY <1>3, <1>4, <1>5, <1>6 DEF Export

\* A process that dies leaves the files it wrote.
LEMMA StepExportStops == ASSUME EInv, ExportStops PROVE EInv'
<1>1. /\ Settled /\ extPhase \in {"patch", "metadata", "guide", "index"} /\ extPhase' = "stopped"
      /\ UNCHANGED <<exported, patchRecord, patchResult, extEdits>>
  BY DEF ExportStops, Settled
<1>2. Reported' /\ Metadata' = Metadata /\ report' = report
  BY <1>1, SettledFacts DEF Settled, Exporting
<1>3. InOrder'
  BY <1>1, <1>2 DEF EInv, InOrder, Before
<1>4. Told'
  BY <1>1, <1>2 DEF EInv, Told, Described
<1> QED BY <1>1, <1>2, <1>3, <1>4 DEF EInv, Exporting

\* An edit changes the patch, or takes away the guide or the metadata.
LEMMA StepEditExport == ASSUME EInv, EditExport PROVE EInv'
<1>1. /\ Settled /\ exported.metadata # NoPatch /\ extEdits' = extEdits + 1
      /\ UNCHANGED <<extPhase, patchRecord, patchResult>>
      /\ extPhase \in Described
  BY DEF EditExport, Settled, EInv, Told
<1>2. Reported' /\ Metadata' = Metadata /\ report' = report
  BY <1>1, SettledFacts DEF Settled, Exporting, Described
<1>3. PICK patch, guide, metadata :
        /\ exported' = [patch |-> patch, metadata |-> metadata, guide |-> guide,
                        index |-> exported.index]
        /\ metadata \in {exported.metadata, NoPatch}
  <2>1. exported = [patch |-> exported.patch, metadata |-> exported.metadata,
                    guide |-> exported.guide, index |-> exported.index]
    BY DEF EInv, InOrder
  <2>2. PICK p : \/ exported' = [exported EXCEPT !.patch = p]
                 \/ exported' = [exported EXCEPT !.guide = FALSE]
                 \/ exported' = [exported EXCEPT !.metadata = NoPatch]
    BY DEF EditExport
  <2>3. CASE exported' = [exported EXCEPT !.patch = p]
    <3>1. exported' = [patch |-> p, metadata |-> exported.metadata, guide |-> exported.guide,
                       index |-> exported.index]
      BY <2>1, <2>3
    <3> QED BY <3>1
  <2>4. CASE exported' = [exported EXCEPT !.guide = FALSE]
    <3>1. exported' = [patch |-> exported.patch, metadata |-> exported.metadata, guide |-> FALSE,
                       index |-> exported.index]
      BY <2>1, <2>4
    <3> QED BY <3>1
  <2>5. CASE exported' = [exported EXCEPT !.metadata = NoPatch]
    <3>1. exported' = [patch |-> exported.patch, metadata |-> NoPatch, guide |-> exported.guide,
                       index |-> exported.index]
      BY <2>1, <2>5
    <3> QED BY <3>1
  <2> QED BY <2>2, <2>3, <2>4, <2>5
<1>5. extEdits' \in Nat /\ extEdits' # 0
  BY <1>1 DEF EInv, InOrder
<1>6. InOrder'
  BY <1>1, <1>2, <1>3, <1>5 DEF EInv, InOrder, Described, Before
<1>7. Told'
  BY <1>1, <1>2, <1>3 DEF EInv, Told
<1> QED BY <1>1, <1>2, <1>6, <1>7 DEF EInv

LEMMA StepGetRecord == ASSUME EInv, GetRecord PROVE EInv'
<1>1. /\ Settled /\ exported.metadata # NoPatch /\ patchRecord' = exported.metadata
      /\ patchResult' = NoPatch /\ UNCHANGED <<extPhase, exported, extEdits>>
      /\ extPhase \in Described
  BY DEF GetRecord, Settled, EInv, Told
<1>2. Reported' /\ Metadata' = Metadata /\ report' = report
  BY <1>1, SettledFacts DEF Settled, Exporting, Described
<1>3. InOrder'
  BY <1>1, <1>2 DEF EInv, InOrder
<1>4. Told'
  BY <1>1, <1>2 DEF EInv, Told
<1> QED BY <1>1, <1>2, <1>3, <1>4 DEF EInv

\* What is not failed is the patch whose hash the record has, and passes only when it
\* covers every file that changed.
LEMMA StepVerifyPatch == ASSUME EInv, NEW forbidden, VerifyPatch(forbidden) PROVE EInv'
<1>1. /\ Settled /\ patchRecord # NoPatch /\ UNCHANGED <<extPhase, exported, patchRecord, extEdits>>
      /\ extPhase \in Described /\ patchRecord = Metadata
  BY DEF VerifyPatch, Settled, EInv, Told
<1>2. Reported' /\ Metadata' = Metadata /\ report' = report
  BY <1>1, SettledFacts DEF Settled, Exporting, Described
<1>3. InOrder'
  BY <1>1, <1>2 DEF EInv, InOrder
<1> DEFINE blocked == Blocked(patchRecord, exported.patch, forbidden)
           wider == patchRecord.changed # DOMAIN exported.patch
<1>4. patchResult' = [patch |-> exported.patch, forbidden |-> forbidden,
                      status |-> IF blocked THEN "failed" ELSE IF wider THEN "warning" ELSE "passed"]
  BY DEF VerifyPatch
<1>5. /\ patchResult'.patch = exported.patch /\ patchResult'.forbidden = forbidden
      /\ patchResult'.status # "failed" => ~blocked
      /\ patchResult'.status = "passed" => ~wider
  BY <1>4
<1>6. patchRecord.hash = report.patch /\ patchRecord.changed = report.changed
  BY <1>1 DEF Metadata
<1>7. ~blocked => /\ exported.patch = report.patch
                  /\ (report.changed \union DOMAIN report.patch)
                       \intersect (forbidden \union PatchSensitive) = {}
  BY <1>6 DEF Blocked
<1>8. patchResult'.status # "failed" =>
        /\ patchResult'.patch = report.patch
        /\ (report.changed \union DOMAIN report.patch)
             \intersect (patchResult'.forbidden \union PatchSensitive) = {}
        /\ patchResult'.status = "passed" => report.changed = DOMAIN report.patch
  <2> HIDE DEF blocked, wider
  <2>1. ~wider => patchRecord.changed = DOMAIN exported.patch
    BY DEF wider
  <2> QED BY <1>5, <1>6, <1>7, <2>1
<1>9. Told'
  BY <1>1, <1>2, <1>8 DEF EInv, Told
<1> QED BY <1>1, <1>2, <1>3, <1>9 DEF EInv

-----------------------------------------------------------------------------
(* The theorem.                                                            *)

LEMMA ExportInit == ExtInit => EInv
  BY DEF ExtInit, EInv, Reported, InOrder, Told, NoExport, Before, Exporting, Described

LEMMA ExportStutter == ASSUME EInv, UNCHANGED extVars PROVE EInv'
  BY DEF extVars, EInv, Reported, InOrder, Told, Metadata, Safe, Dirty, GitDiff

LEMMA ExportStep == EInv /\ [ExtNext]_extVars => EInv'
<1> SUFFICES ASSUME EInv, [ExtNext]_extVars PROVE EInv'
  OBVIOUS
<1>1. CASE \/ \E project \in Trees : Import(project)
           \/ \E effect \in Effects : InitialTest(effect)
           \/ \E effect \in Effects, result \in {"passed", "failed"} : Change(effect, result)
  BY <1>1, StepBefore
<1>2. CASE Collect
  BY <1>2, StepCollect
<1>3. CASE Export
  BY <1>3, StepExport
<1>4. CASE ExportStops
  BY <1>4, StepExportStops
<1>5. CASE EditExport
  BY <1>5, StepEditExport
<1>6. CASE GetRecord
  BY <1>6, StepGetRecord
<1>7. CASE \E forbidden \in VerifierLists : VerifyPatch(forbidden)
  BY <1>7, StepVerifyPatch
<1>8. CASE UNCHANGED extVars
  BY <1>8, ExportStutter
<1> QED BY <1>1, <1>2, <1>3, <1>4, <1>5, <1>6, <1>7, <1>8 DEF ExtNext

\* A patch that patch:verify passes brings the source project, as far as git can tell, to
\* the state that the run's tests left, and changes no file of a sensitive name or one that
\* patch:verify was told to refuse; one it warns of leaves out created files only; a safe
\* export has a verified run behind it, and a listed export is whole until it is edited
\* (PatchExportStore.save, PatchVerifier.verify).
THEOREM ExportsVerified == ExtSpec => []ExportsAreVerified
<1>1. EInv => ExportsAreVerified
  BY PassedPatchRebuilds, SafeExport DEF ExportsAreVerified
<1> QED BY <1>1, ExportInit, ExportStep, PTL DEF ExtSpec
=============================================================================
