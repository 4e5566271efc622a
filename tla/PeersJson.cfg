\* json_client, which is to make three connections.
SPECIFICATION Spec
CONSTANTS
  Pairs <- JsonPair
  N = 3
  Rounds = 1
  HEAD = 2
  BODY = 1
  CHUNK = 2
  Cap = 1
INVARIANT MakesAll
\* The clients are at their end.
CHECK_DEADLOCK FALSE
