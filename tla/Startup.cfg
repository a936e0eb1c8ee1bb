SPECIFICATION FairSpec
CONSTANTS
  Candidates <- TwoCandidates
  RelayNames <- TwoRelayNames
  Addresses = {a1, a2}
  NoAddress = NoAddress
  MaxKills = 2
INVARIANTS
  TypeOK
  ReadyToRun
  FirstNameWins
PROPERTIES
  ComesUp
CHECK_DEADLOCK FALSE
