CONSTANTS
  alice = alice
  bot = bot
  Seats <- TwoSeats
  Bots <- OneBot
  TotalRounds = 2
  TurnsPerRound = 2
  Poison <- TwoPoisons
  MayCancel = TRUE
  MayWipe = TRUE
  MaxFaults = 2
SPECIFICATION FairSpec
INVARIANTS
  TypeOK
  IInv
  TurnsInOrder
  CountedOnce
  HealNeverRacesLoop
  CancelSticks
PROPERTIES
  NoEarlyResolve
  ProgressSpec
  EventuallyOver
