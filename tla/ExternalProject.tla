---------------------------- MODULE ExternalProject ----------------------------
(***************************************************************************)
(* A change tried on a copy of somebody's project (core/external) and the  *)
(* patch that comes of it (core/patch): import, baseline commit, a first   *)
(* test, the approved write and its tests, what git reports, the export's  *)
(* four files, and patch:verify, which may run much later.                 *)
(*                                                                         *)
(* The write and its verdict are one step each here; their own steps are   *)
(* CodeChangeExecution's, the verdict is ExecutionVerification's.          *)
(***************************************************************************)
EXTENDS ExecutionVerification, Sequences

CONSTANTS
  Trees,      \* source projects: file -> content
  Excluded,   \* files that are not copied
  Ignored,    \* files that the project's .gitignore names
  Target, Content,  \* the change that is asked for
  Allowed, Forbidden,  \* allowedFiles and forbiddenFiles of the run
  Protected,  \* files whose name the plan validators refuse (SENSITIVE_PATH_PATTERN)
  PatchSensitive,  \* files whose name patch:verify refuses
  VerifierLists,   \* what patch:verify may be given as --forbiddenFiles
  Effects,    \* what a test command leaves behind: some files -> content
  Absent,     \* content of a file that does not exist
  Refused,    \* contents that the patch may not add, binary or dangerous
  NoPatch,
  MaxEdits    \* bound on later edits of the export

VARIABLES
  extPhase,
  tree,       \* the source project
  base, copy, \* the copied workspace, committed and now
  preDirty,   \* files that differed before the write
  passed,     \* context.verification.pass
  report,     \* what git told: changed, deleted, patch
  exported,   \* files of the export: patch, metadata, guide, and its index line
  patchRecord, patchResult,  \* of patch:verify
  extEdits

extVars == <<extPhase, tree, base, copy, preDirty, passed, report, exported, patchRecord, patchResult,
             extEdits>>

NoExport == [patch |-> NoPatch, metadata |-> NoPatch, guide |-> FALSE, index |-> FALSE]

ExtInit ==
  /\ extPhase = "start"
  /\ tree = NoPatch /\ base = NoPatch /\ copy = NoPatch
  /\ preDirty = {} /\ passed = FALSE /\ report = NoPatch
  /\ exported = NoExport
  /\ patchRecord = NoPatch /\ patchResult = NoPatch /\ extEdits = 0

-----------------------------------------------------------------------------
(* ExternalProjectImporter and ExternalProjectWorkspaceRunner.             *)

\* What git add takes of the copy: ignored files are copied and stay out of the commit.
Committed(files) == [f \in Files |-> IF f \in Ignored THEN Absent ELSE files[f]]

Import(project) ==
  LET copied == [f \in Files |-> IF f \in Excluded THEN Absent ELSE project[f]] IN
    /\ extPhase = "start"
    /\ tree' = project /\ copy' = copied /\ base' = Committed(copied)
    /\ extPhase' = "imported"
    /\ UNCHANGED <<preDirty, passed, report, exported, patchRecord, patchResult, extEdits>>

After(effect) == [f \in Files |-> IF f \in DOMAIN effect THEN effect[f] ELSE copy[f]]

\* git status: the files that differ from the commit, but for ignored ones.
Dirty(files) == {f \in Files \ Ignored : files[f] # base[f]}

\* The first test command, before anything is asked for; it may leave files.
InitialTest(effect) ==
  /\ extPhase = "imported"
  /\ copy' = After(effect) /\ preDirty' = Dirty(After(effect))
  /\ extPhase' = "tested"
  /\ UNCHANGED <<tree, base, passed, report, exported, patchRecord, patchResult, extEdits>>

\* The plan that buildContext writes and approves itself: blocked, or carried out
\* and tested.  Only what newly differs at the write counts as the executor's.
Change(effect, result) ==
  LET written == [copy EXCEPT ![Target] = Content]
      code == [status |-> "success", byExecutor |-> Dirty(written) \ preDirty,
               changed |-> Dirty(written), deleted |-> {f \in Dirty(written) : written[f] = Absent}]
      task == [allowed |-> Allowed, maxFiles |-> Cardinality(Allowed), maxPatch |-> NoLimit,
               mayDelete |-> FALSE, criteria |-> {}] IN
    /\ extPhase = "tested"
    /\ IF Target \in Allowed \ (Forbidden \union Protected)
       THEN /\ copy' = [f \in Files |-> IF f \in DOMAIN effect THEN effect[f] ELSE written[f]]
            /\ passed' = Passes(code, [status |-> result], task)
       ELSE UNCHANGED <<copy, passed>>
    /\ extPhase' = "run"
    /\ UNCHANGED <<tree, base, preDirty, report, exported, patchRecord, patchResult, extEdits>>

\* Faulty variant: all files that differ have a diff.
DiffAll(files) == [f \in Dirty(files) |-> files[f]]

\* git diff: the tracked files that differ.
GitDiff(files) == [f \in {d \in Dirty(files) : base[d] # Absent} |-> files[f]]

\* git status lists untracked files too; git diff --name-status does not.
Collect ==
  /\ extPhase = "run"
  /\ report' = [changed |-> Dirty(copy), patch |-> GitDiff(copy),
                deleted |-> {f \in Dirty(copy) : copy[f] = Absent}]
  /\ extPhase' = "patch"
  /\ UNCHANGED <<tree, base, copy, preDirty, passed, exported, patchRecord, patchResult, extEdits>>

-----------------------------------------------------------------------------
(* PatchExportStore.save.                                                  *)

\* Faulty variant: an export is safe when its tests passed.
SafeWhenVerified == passed

Safe == report.patch # << >> /\ report.deleted = {} /\ passed

Metadata == [hash |-> report.patch, changed |-> report.changed, deleted |-> report.deleted, safe |-> Safe]

Export ==
  /\ \/ extPhase = "patch" /\ exported' = [exported EXCEPT !.patch = report.patch] /\ extPhase' = "metadata"
     \/ extPhase = "metadata" /\ exported' = [exported EXCEPT !.metadata = Metadata] /\ extPhase' = "guide"
     \/ extPhase = "guide" /\ exported' = [exported EXCEPT !.guide = TRUE] /\ extPhase' = "index"
     \/ extPhase = "index" /\ exported' = [exported EXCEPT !.index = TRUE] /\ extPhase' = "done"
  /\ UNCHANGED <<tree, base, copy, preDirty, passed, report, patchRecord, patchResult, extEdits>>

\* A write throws or the process dies: whatever is written stays.
ExportStops ==
  /\ extPhase \in {"patch", "metadata", "guide", "index"}
  /\ extPhase' = "stopped"
  /\ UNCHANGED <<tree, base, copy, preDirty, passed, report, exported, patchRecord, patchResult, extEdits>>

\* Somebody edits the patch by hand, or deletes a file of the export (or leaves metadata
\* that does not parse, which comes to the same).
EditExport ==
  /\ exported.metadata # NoPatch /\ extEdits < MaxEdits
  /\ extEdits' = extEdits + 1
  /\ exported' \in {[exported EXCEPT !.patch = NoPatch], [exported EXCEPT !.guide = FALSE],
                    [exported EXCEPT !.metadata = NoPatch]}
       \union {[exported EXCEPT !.patch = p] : p \in {GitDiff([base EXCEPT ![f] = Content]) : f \in Files}}
  /\ UNCHANGED <<extPhase, tree, base, copy, preDirty, passed, report, patchRecord, patchResult>>

-----------------------------------------------------------------------------
(* patch:verify.                                                           *)

\* PatchExportStore.get
GetRecord ==
  /\ exported.metadata # NoPatch
  /\ patchRecord' = exported.metadata /\ patchResult' = NoPatch
  /\ UNCHANGED <<extPhase, tree, base, copy, preDirty, passed, report, exported, extEdits>>

\* Faulty variant: the hash is not compared.
BlockedUnhashed(record, patch, forbidden) ==
  \/ exported.metadata = NoPatch
  \/ patch = NoPatch \/ ~exported.guide \/ patch = << >>
  \/ \E f \in DOMAIN patch : patch[f] \in Refused
  \/ ~(DOMAIN patch \subseteq record.changed)
  \/ record.deleted # {}
  \/ (record.changed \union DOMAIN patch) \intersect (forbidden \union PatchSensitive) # {}

\* Faulty variant: only the files that the patch itself touches are checked.
BlockedInPatch(record, patch, forbidden) ==
  \/ exported.metadata = NoPatch \/ exported.metadata.hash # record.hash
  \/ patch = NoPatch \/ ~exported.guide \/ patch = << >> \/ patch # record.hash
  \/ \E f \in DOMAIN patch : patch[f] \in Refused
  \/ ~(DOMAIN patch \subseteq record.changed)
  \/ record.deleted # {}
  \/ DOMAIN patch \intersect (forbidden \union PatchSensitive) # {}

\* PatchVerifier's blocked reasons.  The metadata are read again, and compared with the
\* record.  The run's forbidden files are not in the export: forbidden is what the
\* command was given.
Blocked(record, patch, forbidden) ==
  \/ exported.metadata = NoPatch \/ exported.metadata.hash # record.hash
  \/ patch = NoPatch \/ ~exported.guide \/ patch = << >> \/ patch # record.hash
  \/ \E f \in DOMAIN patch : patch[f] \in Refused
  \/ ~(DOMAIN patch \subseteq record.changed)
  \/ record.deleted # {}
  \/ (record.changed \union DOMAIN patch) \intersect (forbidden \union PatchSensitive) # {}

VerifyPatch(forbidden) ==
  /\ patchRecord # NoPatch /\ patchResult = NoPatch
  /\ patchResult' =
       [patch |-> exported.patch, forbidden |-> forbidden,
        status |-> IF Blocked(patchRecord, exported.patch, forbidden) THEN "failed"
                   ELSE IF patchRecord.changed # DOMAIN exported.patch THEN "warning" ELSE "passed"]
  /\ UNCHANGED <<extPhase, tree, base, copy, preDirty, passed, report, exported, patchRecord, extEdits>>

ExtNext ==
  \/ \E project \in Trees : Import(project)
  \/ \E effect \in Effects : InitialTest(effect)
  \/ \E effect \in Effects, result \in {"passed", "failed"} : Change(effect, result)
  \/ Collect \/ Export \/ ExportStops \/ EditExport \/ GetRecord
  \/ \E forbidden \in VerifierLists : VerifyPatch(forbidden)

ExtSpec == ExtInit /\ [][ExtNext]_extVars
-----------------------------------------------------------------------------
(* Properties.                                                             *)

Applied(patch) == [f \in Files |-> IF f \in DOMAIN patch THEN patch[f] ELSE tree[f]]

\* What git can tell of: it was copied, and .gitignore does not name it.
Tracked == Files \ (Excluded \union Ignored)

\* A patch that patch:verify passes brings the source project, as far as git can tell, to
\* the state that the run's tests left; one it warns of leaves out files the run created, and
\* nothing else; and neither changes, or leaves out, a file of a sensitive name or one that
\* patch:verify was told to refuse.
VerifiedPatchRebuilds ==
  patchResult # NoPatch /\ patchResult.status # "failed" =>
    LET left == {f \in Tracked : Applied(patchResult.patch)[f] # copy[f]} IN
      /\ patchResult.status = "passed" => left = {}
      /\ \A f \in left : base[f] = Absent
      /\ (left \union DOMAIN patchResult.patch)
           \intersect (PatchSensitive \union patchResult.forbidden) = {}

\* An export that calls itself safe to apply has a verified run behind it, makes some
\* change and deletes no committed file, whatever the tests did to the copy; and an
\* export that is listed is whole until somebody edits it.
SafeExportIsVerified ==
  /\ exported.metadata # NoPatch /\ exported.metadata.safe =>
       /\ passed
       /\ \E f \in Files : copy[f] # base[f] /\ base[f] # Absent
       /\ \A f \in Files : base[f] # Absent => copy[f] # Absent
  /\ exported.index /\ extEdits = 0 =>
       /\ exported.patch = exported.metadata.hash /\ exported.guide

\* The two together are what an export promises its reader: a safe export has a verified
\* run behind it, and a patch that passes rebuilds the copy that was tested.
ExportsAreVerified == VerifiedPatchRebuilds /\ SafeExportIsVerified
=============================================================================
