CONSTANTS
  alice = alice
  bot = bot
  Seats <- TwoSeats
  Bots <- OneBot
  TotalRounds = 1
  TurnsPerRound = 1
  Poison <- NoPoison
  MayCancel = TRUE
  MayWipe = TRUE
  MaxFaults = 0
SPECIFICATION Spec
PROPERTY TerminalIsFinal
