SPECIFICATION FairSpec
CONSTANTS
  b1 = b1
  b2 = b2
  b3 = b3
  b4 = b4
  Blobs <- FourBlobs
  RequestedAt <- FourTimes
  PageLimit = 2
  MaxRestarts = 2
CHECK_DEADLOCK FALSE
PROPERTIES
  CollectedOrLost
INVARIANTS
  TypeOK
  OnlyKnownLosses
