SPECIFICATION FairSpec
CONSTANTS
  b1 = b1
  b2 = b2
  r1 = r1
  r2 = r2
  w1 = w1
  w2 = w2
  Blobs <- TwoBlobs
  RequestedAt <- TwoTimes
  RelayKeys <- BarrenRelays
  Workers <- OneWorker
  Reverifier = Reverifier
  NoRelay = NoRelay
  NoBlob = NoBlob
  BatchLimit = 1
  MaxInFlight = 1
  MaxRounds = 1
  MaxRestarts = 1
CHECK_DEADLOCK FALSE
PROPERTIES
  ProbedOrCrowdedOut
  ShutdownCompletes
