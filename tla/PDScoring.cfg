CONSTANTS
  ann = ann
  ben = ben
  cid = cid
  Players <- ThreePlayers
  MatchModes = {"decay", "no_repeats"}
  TotalRounds = 2
  TurnsPerRound = 2
SPECIFICATION Spec
SYMMETRY Interchangeable
INVARIANTS
  TypeOK
  MirrorNeverBelow
  BetrayalPaysBest
  TakesStandAlone
PROPERTY PactFollowsPlay
CHECK_DEADLOCK FALSE
