CONSTANTS
  w1 = w1
  w2 = w2
  Workers <- TwoWorkers
  Callers <- AllCallers
  MaxRetries = 2
  MaxInFlight = 1
  MaxCalls = 2
SPECIFICATION FairSpec
INVARIANTS
  TypeOK
  NoUseAfterClose
PROPERTIES
  PassesEnd
  ShutdownCompletes
  KeepsGoing
CHECK_DEADLOCK FALSE
