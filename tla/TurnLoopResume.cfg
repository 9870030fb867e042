CONSTANTS
  alice = alice
  bot = bot
  Seats <- TwoSeats
  Bots <- OneBot
  TotalRounds = 1
  TurnsPerRound = 2
  Poison <- NoPoison
  MayCancel = FALSE
  MayWipe = FALSE
  MaxFaults = 1
SPECIFICATION Spec
INVARIANT RoundScoreIntact
