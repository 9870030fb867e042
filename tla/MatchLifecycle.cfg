SPECIFICATION FairSpec
CONSTANTS
  Kinds <- AllKinds
  Agents <- OneAgent
  Humans <- OneHuman
  MinPlayers = 2
  MaxPlayers = 2
  MaxBots = 2
  MaxRows = 2
  MaxRequests = 2
  MaxDeaths = 1
INVARIANTS TypeOK
PROPERTIES ConfirmedStays CancelHolds DueIsDecided ActiveIsDriven
CHECK_DEADLOCK FALSE
