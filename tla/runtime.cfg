SPECIFICATION FairSpec
CONSTANTS
  N = 4
  Start = 1
  Edges <- PartialEdges
  Key <- PartialKey
  Valid <- PartialValid
  MaxIterations = 5
  Llm = {1, 2, 3}
  Null = Null
  MaxFaults = 2
INVARIANTS TypeOK PathIsBounded RoutesExplained ArtifactsProveTrace StepsAligned DispatchesExplained
PROPERTIES Terminates
CHECK_DEADLOCK FALSE
