SPECIFICATION Spec
CONSTANTS
  None = None
  Runs = {r1, r2}
  Profiles = {"rag", "coding"}
  Tasks = {"improve", "deploy"}
  Answers = {"file", "chunk", "key"}
  Requests <- SessionRequests
  Profile <- ShippedProfile
  NodeTypes <- ShippedNodeTypes
  Route <- TaskRoute
  Safe = {"rag"}
  Bounded = {"improve"}
  MentionsRoute = {}
  MentionsBlocked = {"deploy"}
  Sensitive = {"key"}
  Foreign <- NoScope
  LlmReady = FALSE
  Left <- LeftPending
  ActiveProfile = "rag"
  MaxFaults = 1
  MaxCommands = 1
INVARIANTS TypeOK ConfirmedIsBacked CompletedRanChain MemoryExplained CopiesAgree
PROPERTIES AwaitsRunOut RunsEnd
CHECK_DEADLOCK FALSE
