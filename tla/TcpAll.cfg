CONSTANTS
  k1 = k1
  k2 = k2
  a1 = a1
  a2 = a2
  Conns = {k1}
  Acceptors = {a1}
  OutBufSize = 2
  InBufSize = 1
  ChunkSize = 1
  PipeSize = 1
  ReadTimeout = TRUE
  WriteTimeout = TRUE
  ConnectTimeout = TRUE
  AcceptTimeout = TRUE
  MaxBytes <- SomeBytes
  MaxErrors = 1
  MaxSignals = 1
SPECIFICATION FairSpec
INVARIANTS NothingLost EofIsEnd DescriptorsFollowPorts CloseReportsLoss
PROPERTY EofArrives
CHECK_DEADLOCK FALSE
