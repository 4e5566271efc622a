SPECIFICATION LifeSpec
CONSTANTS
  MaxMsgs = 3
  MAX_SENDQUE = 1
INVARIANT NoUseAfterFree
CHECK_DEADLOCK FALSE
