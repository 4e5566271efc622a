\* WriteAllToSocket alone: does async_send send it all?
SPECIFICATION ApiSpec
CONSTANTS
  Kinds = {"all"}
  MaxMsgs = 2
  MsgLen = 2
  RECVSIZE = 1
  MaxBytes = 1
INVARIANT SendsAll
\* The owner writes no more.
CHECK_DEADLOCK FALSE
