\* The three servers, one after the other.  CoroutinServer asks for a pool of
\* one thread; with two the turns of the contexts and the joins are real.
CONSTANTS
  Servers = {"logical", "thread_pool", "coroutine"}
  NThreads = 2
  Conns = {c1, c2, c3}
  c1 = c1
  c2 = c2
  c3 = c3
SPECIFICATION Spec
INVARIANTS ServerOutlives NormalEnd
PROPERTY StopsWhenLeft
CHECK_DEADLOCK FALSE
