SPECIFICATION Spec
CONSTANTS
  Runs = {r1}
  Files <- ProjectFiles
  Sensitive <- SecretFiles
  Words <- PlainWords
  NoLimit = NoLimit
  Contents <- AllContents
  Plans <- OnlyLarge
  Task <- FixTask
  Commits <- Clean
  Workspaces <- Clean
  Absent = Absent
  Torn = Torn
  NoPlan = NoPlan
  Unset = Unset
  PatchOf <- Sizes
  PreviewChars = 12
  GitStates = {"repository"}
  Overlap = FALSE
  MaxFaults = 0
  MaxEdits = 0
  Edits = {"mine"}
INVARIANTS PatchLimitHolds
CHECK_DEADLOCK FALSE
