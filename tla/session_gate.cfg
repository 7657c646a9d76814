SPECIFICATION Spec
CONSTANTS
  None = None
  Runs = {r1}
  Profiles = {"rag"}
  Tasks = {"improve", "deploy"}
  Answers = {"file"}
  Requests <- AnswerRequests
  Profile <- ShippedProfile
  NodeTypes <- ShippedNodeTypes
  Route <- TaskRoute
  Safe = {"rag"}
  Bounded = {"improve"}
  MentionsRoute = {}
  MentionsBlocked = {"deploy"}
  Sensitive = {}
  Left <- DeployLeft
  Foreign <- NoScope
  LlmReady = FALSE
  ActiveProfile = "rag"
  MaxFaults = 0
  MaxCommands = 0
INVARIANTS FollowupsGated
CHECK_DEADLOCK FALSE
