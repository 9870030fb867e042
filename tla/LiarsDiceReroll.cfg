SPECIFICATION Spec
CONSTANTS
  NumSeats = 3
  MaxFace = 2
  Wild = TRUE
  DicePerPlayer = 2
  MaxRequests = 0
  MaxTurns = 4
  MaxRounds = 5
  MaxCrashes = 0
  Bots <- LastSeat
PROPERTIES DiceShrink
CHECK_DEADLOCK FALSE
