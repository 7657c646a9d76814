SPECIFICATION PartsSpec
CONSTANTS
  Plans <- AllPlans
  MaxIterations = 12
  None = None
  Torn = Torn
  MaxFaults = 2
  App = App  PatchTool = PatchTool  Secret = Secret  LocalEnv = LocalEnv  Built = Built
  Files <- ProjectFiles
  Sensitive <- SecretFiles
  Words <- NamedWords
  NoLimit = NoLimit
  CodeResults <- ResultsOfCode
  VerificationTasks <- CodingTasks
  NotVerified = None
  Trees <- SourceTrees
  Excluded <- SecretFiles
  Ignored <- BuiltFiles
  Forbidden <- SecretAndLocal
  Protected <- SecretAndLocal
  PatchSensitive <- SecretFiles
  VerifierLists <- NoneOrLocal
  Target = App
  Content = "new"
  Allowed <- AllowedFiles
  Effects <- TestEffects
  Absent = Absent
  Refused = {"binary"}
  NoPatch = None
  MaxEdits = 1
  Reports <- FailedReports
  DroppedFiles = {"cert.pem"}
  SensitivePaths = {"cert.pem", ".env.local"}
  AlwaysForbidden = {".env.local"}
  OutsideFiles = {"../x"}
  UnsafeCommands = {"npm test; x"}
  Bodies = {"fix"}
  Nothing = None
  MaxApprovals = 2
  MaxClock = 1
  Briefs <- TaskBriefs
  Rewrites <- BriefRewrites
  NoScope = None
  PackWorkflows <- Workflows
  Collectors = {w1, w2}
  NoPack = None
  MaxStops = 1
  Envs <- Environments
  Policies = {None, 0, 1, 3}
  Unset = None
  ChatSessions = {w1, w2}
  MaxTurns = 2
  Nobody = None
  Stdout = Stdout
  Lookups = {w1, w2}
  RoleFiles <- RolesInOrder
  BadFiles <- SpoiltRoles
  NotCached = None
  FileKeys = {"k1", "k2"}
  HandWritten <- ByHand
  Specs <- TemplateSpecs
  Presets = {"planner", "executor"}
  Creators = {w1, w2}
  NoFile = None
  TornFile = Torn
  MaxCreations = 2
  Readers = {w1, w2}
INVARIANTS RoutesAreChosen RecordsFollowAttempts ExportsAreVerified VerdictsAreRight ApprovalsBind CallsAccounted PacksAreHonest EntryIsFaithful CatalogsAnswer ShippedTemplateRuns
SYMMETRY Symmetry
CHECK_DEADLOCK FALSE
