\* The copy of the logic layer that CoroutinServer has, and one session.
SPECIFICATION ServerSpec
CONSTANTS
  p1 = p1
  p2 = p2
  m1 = m1
  m2 = m2
  m3 = m3
  Producers <- MCProducers
  Msgs <- MCMsgs
  Hello <- MCHello
  PostLocks = TRUE
  PoolStops = TRUE
  MaxMsgs = 3
  MAX_SENDQUE = 1
INVARIANTS TypeOK NoDataRace NoLostWakeup FrontNotEmpty ExitDrained
  DanglingOnlyAfterWriteError LeakOnlyIfClearedEarly
PROPERTIES MailboxSpec Released
\* A server that has stopped takes no further step, nor does a session whose
\* connection has ended.
CHECK_DEADLOCK FALSE
