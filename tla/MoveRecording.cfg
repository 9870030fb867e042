CONSTANTS
  agent = agent
  human = human
  bot = bot
  q1 = q1
  q2 = q2
  hoard = hoard
  help = help
  Agents <- OneAgent
  Humans <- OneHuman
  Bots <- OneBot
  Requests <- TwoRequests
  Answers <- TwoAnswers
  Default = hoard
  MayFallBack = TRUE
  FirstTurn = FALSE
  MaxCrashes = 1
SPECIFICATION FairSpec
INVARIANTS TypeOK KnownLeaversAnswer
PROPERTIES
  GenuineStays
  AgentAnswerStands
  EventuallyResolved
CHECK_DEADLOCK FALSE
