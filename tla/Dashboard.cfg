CONSTANTS
  b1 = b1
  b2 = b2
  o1 = o1
  o2 = o2
  s1 = s1
  s2 = s2
  NoBlob = NoBlob
  NoOperator = NoOperator
  Blobs <- TwoBlobs
  Operators <- TwoOperators
  RequestedAt <- TwoRequested
  Answers = {1, 2}
  Share <- TwoShares
  MinChunks = 2
  MaxRestarts = 0
  Sockets <- TwoSockets
  Hour = 1
  DeadAfter = 1
  MaxTime = 1
SPECIFICATION DashSpec
CHECK_DEADLOCK FALSE
INVARIANTS
  DashTypeOK
  NoLivingDead
PROPERTIES
  ReportMatchesDashboard
  VerdictOnlyAges
  DeadUntilProbed
SYMMETRY SocketSymmetry
