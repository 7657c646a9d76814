SPECIFICATION Spec
CONSTANTS
  Runs = {r1, r2}
  Files <- ProjectFiles
  Sensitive <- SecretFiles
  Words <- PlainWords
  NoLimit = NoLimit
  Contents <- AllContents
  Plans <- AllPlans
  Task <- FixTask
  Commits <- Clean
  Workspaces <- MaybeDirty
  Absent = Absent
  Torn = Torn
  NoPlan = NoPlan
  Unset = Unset
  PatchOf <- Sizes
  PreviewChars = 12
  GitStates = {"repository", "missing"}
  Overlap = TRUE
  MaxFaults = 1
  MaxEdits = 1
  Edits = {"mine"}
INVARIANTS ScopeKept ReturnedIsRecorded ExecutedUnlessChanged
PROPERTIES CreatesSpareWhatWas OnlyWhileExecuting CallsRunOut
SYMMETRY Symmetry
CHECK_DEADLOCK FALSE
