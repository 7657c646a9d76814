SPECIFICATION FairSpec
CONSTANTS
  d1 = d1  d2 = d2
  plain = plain  reordered = reordered  redacted = redacted  patch = patch
  p1 = p1  p2 = p2  r1 = r1  r2 = r2  q1 = q1  q2 = q2
  NoDecision = NoDecision  NoCall = NoCall
  Decisions = {d1, d2}
  Calls = {plain, redacted}
  Reordered = {}
  Sanitized = {redacted}
  Shell = {plain, redacted}
  Plugins = {p1}
  Resolvers = {r1}
  Runners = {}
  TTL = 1
  MaxNow = 2
  MaxOps = 5
  MaxCrashes = 1
INVARIANTS LogAgrees
PROPERTIES ImplementsSingleUse TrailCompleted
CHECK_DEADLOCK FALSE
