CONSTANTS
  ann = ann
  ben = ben
  Players <- TwoPlayers
  TotalRounds = 3
  TurnsPerRound = 2
  RoundScores = {0, 1}
  Tallies = {0}
SPECIFICATION Spec
SYMMETRY Interchangeable
INVARIANTS
  TypeOK
  PositionCarried
  RailAgrees
CHECK_DEADLOCK FALSE
