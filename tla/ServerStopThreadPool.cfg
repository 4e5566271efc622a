\* async_server_IOThreadPool alone: what the signal does.
CONSTANTS
  Servers = {"thread_pool"}
  NThreads = 2
  Conns = {c1, c2}
  c1 = c1
  c2 = c2
SPECIFICATION Spec
PROPERTY SignalStops
CHECK_DEADLOCK FALSE
