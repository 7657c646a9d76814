SPECIFICATION FairSpec
CONSTANTS
  Runs = {r1, r2}
  Files <- ProjectFiles
  Sensitive <- SecretFiles
  Words <- PlainWords
  NoLimit = NoLimit
  Contents <- AllContents
  Plans <- SerialPlans
  Task <- FixTask
  Commits <- Clean
  Workspaces <- MaybeDirty
  Absent = Absent
  Torn = Torn
  NoPlan = NoPlan
  Unset = Unset
  PatchOf <- Sizes
  PreviewChars = 12
  GitStates = {"repository", "none", "missing"}
  Overlap = FALSE
  MaxFaults = 2
  MaxEdits = 0
  Edits = {"mine"}
INVARIANTS TypeOK OneExecutionDone
PROPERTIES RunsEnd
CHECK_DEADLOCK FALSE
