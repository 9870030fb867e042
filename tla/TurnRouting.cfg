SPECIFICATION FairSpec
CONSTANTS
  Conns <- LaptopAndPhone
  Sessions <- TwoSessions
  ConnOf <- OverWhich
  Scope <- AsksFor
  FanOut <- OnlyConnector
  Seats <- TwoSeats
  Covered <- CoveredAtFirst
  Throttle = 1
  Window = 2
  Hold = 3
  MaxTurns = 2
  MaxChanges = 1
INVARIANTS TypeOK HoldKeepsAlive
PROPERTIES StickyPin EventuallyPlayed
CHECK_DEADLOCK FALSE
