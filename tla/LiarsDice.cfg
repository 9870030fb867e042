SPECIFICATION FairSpec
CONSTANTS
  NumSeats = 3
  MaxFace = 2
  Wild = TRUE
  DicePerPlayer = 1
  MaxRequests = 1
  MaxTurns = 4
  MaxRounds = 5
  MaxCrashes = 1
  Bots <- LastSeat
INVARIANTS TypeOK OneOutPerHand WinnerStands
PROPERTIES StandingSpec EventuallyWon
CHECK_DEADLOCK FALSE
