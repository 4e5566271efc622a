SPECIFICATION SessionSpec
CONSTANTS
  HEAD_TOTAL_LEN = 4
  MAX_LENGTH = 9
  SHORT = 16
  Streams <- MCStreams
  s1 = s1
  s2 = s2
  m1 = m1
  m2 = m2
  m3 = m3
  m4 = m4
  Senders <- MCSenders
  Msgs <- MCMsgs
  MAX_SENDQUE = 1
INVARIANTS TypeOK InOrder NothingKeptBack NeverDeaf
  OneWriter BufferAlive FramesInOrder Bounded
PROPERTIES InputDelivered OutputSpec
\* The stream ends, the session stops, everything was sent, or the connection
\* is down.
CHECK_DEADLOCK FALSE
