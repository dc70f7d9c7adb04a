CONSTANTS
  p = p
  t1 = t1
  t2 = t2
  fa = fa
  fb = fb
  Threads = {p, t1, t2}
  Primordial = p
  Fds = {fa, fb}
  Dirs = {"in"}
  Mutexes = {}
  MaxTime = 1
  MaxSignals = 1
  Ops = {"io", "sleep", "start", "join", "dead", "kill", "handler", "slow", "yield", "wait"}
SPECIFICATION SigSpec
INVARIANTS HandlerChangesKept SigQueuesIntact
PROPERTY DeadAreNotWoken
SYMMETRY Spawned
CONSTRAINT Focus
CHECK_DEADLOCK FALSE
