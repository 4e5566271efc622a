\* The four servers with callbacks, one after the other.
SPECIFICATION Spec
CONSTANTS
  Kinds = {"AsyncServer", "async_read_use", "logical", "thread_pool"}
  MaxMsgs = 3
  MAX_SENDQUE = 1
INVARIANTS RepliesInOrder LeakOnlyWithThreads
PROPERTIES Answered Released OutputSpec
\* The connection ends.
CHECK_DEADLOCK FALSE
