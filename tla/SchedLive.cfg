CONSTANTS
  p = p
  t1 = t1
  fa = fa
  fb = fb
  m1 = m1
  Threads = {p, t1}
  Primordial = p
  Fds = {fa}
  Dirs = {"in"}
  Mutexes = {}
  MaxTime = 2
  MaxSignals = 1
  Ops = {"sleep", "io", "start", "join", "dead"}
SPECIFICATION FairSpec
PROPERTIES ImplementsThreadWaits ReadyRuns DeadlineReturns NoStuckIO
CHECK_DEADLOCK FALSE
