SPECIFICATION EntrySpec
CONSTANTS
  ChatSessions = {s1, s2}
  MaxTurns = 2
  Nobody = Nobody
  Stdout = Stdout
INVARIANT LogsSuppressed
CHECK_DEADLOCK FALSE
