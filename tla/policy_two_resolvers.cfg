SPECIFICATION Spec
CONSTANTS
  d1 = d1  d2 = d2
  plain = plain  reordered = reordered  redacted = redacted  patch = patch
  p1 = p1  p2 = p2  r1 = r1  r2 = r2  q1 = q1  q2 = q2
  NoDecision = NoDecision  NoCall = NoCall
  Decisions = {d1}
  Calls = {plain}
  Reordered = {}
  Sanitized = {}
  Shell = {plain}
  Plugins = {p1}
  Resolvers = {r1, r2}
  Runners = {}
  TTL = 1
  MaxNow = 1
  MaxOps = 4
  MaxCrashes = 0
PROPERTIES RejectedNeverUsed
CHECK_DEADLOCK FALSE
