CONSTANTS
  p = p
  t1 = t1
  fa = fa
  fb = fb
  m1 = m1
  Threads = {p, t1}
  Primordial = p
  Fds = {fa}
  Dirs = {"in", "out"}
  Mutexes = {m1}
  MaxTime = 2
  MaxSignals = 1
  Ops = {"sleep", "io", "start", "lock", "kill", "abort", "fork"}
SPECIFICATION Spec
INVARIANTS TypeOK ReadyIsQueuedOnce NoLostWakeup FdListMatchesSlot11 NoEarlyTimeout DeadlockIsReal OwnEnvironment
PROPERTIES SuspendedStaySuspended ImplementsThreadWaits
CONSTRAINT Focus
CHECK_DEADLOCK FALSE
