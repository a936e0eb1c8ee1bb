CONSTANTS
  b1 = b1
  b2 = b2
  o1 = o1
  o2 = o2
  NoBlob = NoBlob
  NoOperator = NoOperator
  Blobs <- TwoBlobs
  Operators <- TwoOperators
  RequestedAt <- TwoRequested
  Answers = {1, 2}
  Share <- TwoShares
  MinChunks = 2
  MaxRestarts = 1
SPECIFICATION FairSpec
INVARIANTS
  TypeOK
  OneRowPerOperator
  NoShutdownRows
  NeverOverstated
PROPERTIES
  VerdictMatchesTable
  QueueSpec
  ScannedOrCrowdedOut
  ShutdownCompletes
CHECK_DEADLOCK FALSE
