CONSTANTS
  ann = ann
  ben = ben
  cid = cid
  Players <- ThreePlayers
  TotalRounds = 5
  RoundScores = {0, 1}
  Tallies = {0, 1}
SPECIFICATION Spec
SYMMETRY Interchangeable
INVARIANTS
  TypeOK
  OneWinPerRound
  LeaderIsAhead
  WinnerIsSole
CHECK_DEADLOCK FALSE
