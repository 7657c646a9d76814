SPECIFICATION Spec
CONSTANTS
  d1 = d1  d2 = d2
  plain = plain  reordered = reordered  redacted = redacted  patch = patch
  p1 = p1  p2 = p2  r1 = r1  r2 = r2  q1 = q1  q2 = q2
  NoDecision = NoDecision  NoCall = NoCall
  Decisions = {d1}
  Calls = {plain, patch, reordered}
  Reordered = {reordered}
  Sanitized = {}
  Shell = {plain}
  Plugins = {p1, p2}
  Resolvers = {r1, r2}
  Runners = {q1}
  TTL = 1
  MaxNow = 2
  MaxOps = 5
  MaxCrashes = 1
SYMMETRY Interchangeable
INVARIANTS TypeOK UsedAsApproved TrailCoversUses ServesEachOnce
CHECK_DEADLOCK FALSE
