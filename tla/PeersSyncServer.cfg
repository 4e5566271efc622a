\* SyncServer with one session, when its acceptor fails.
SPECIFICATION Spec
CONSTANTS
  Pairs <- SyncServerPair
  N = 1
  Rounds = 1
  HEAD = 2
  BODY = 1
  CHUNK = 2
  Cap = 1
INVARIANT WaitsForSessions
\* The clients are at their end.
CHECK_DEADLOCK FALSE
