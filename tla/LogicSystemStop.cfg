SPECIFICATION Spec
CONSTANTS
  p1 = p1
  p2 = p2
  m1 = m1
  m2 = m2
  m3 = m3
  Producers <- MCProducers
  Msgs <- MCMsgs
  Hello <- MCHello
  PostLocks = TRUE
  PoolStops = TRUE
PROPERTY StopEnds
\* A server that has stopped takes no further step.
CHECK_DEADLOCK FALSE
