CONSTANTS
  s1 = s1
  s2 = s2
  timer = timer
  Signals = {s1, s2}
  Timer = timer
  MaxPending = 2
  StackRoom = 2
  MaxRaises = 3
  MaxTimers = 1
SPECIFICATION FairSpec
INVARIANTS TypeOK SignalsAccounted
PROPERTIES SignalsHandled
