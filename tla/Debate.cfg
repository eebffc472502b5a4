SPECIFICATION DebateSpec
CONSTANTS
  d1 = d1  d2 = d2
  Debates = {d1, d2}
  Chats = {c1}
  agents <- MCagents
  role <- MCrole
  max_turns = 1
  MaxChunks = 2
  MaxQueued = 1
  Limit = 2
  None = None
INVARIANTS
  DebateConsistent
  StopReachesTheDebate
PROPERTY
  EveryDebateEnds
