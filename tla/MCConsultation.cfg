CONSTANTS
  NumFacts = 3
  QuestionsPerRound = 2
  MaxClarificationRounds = 2
  MaxRounds = 12
  MaxTaskDepth = 10
  MaxClaimsPerAgent = 4
  Messages <- MCMessages
  HasModel = TRUE
  MayFail = TRUE
  MaxTurns = 4

SPECIFICATION Spec
INVARIANTS
  TypeOK
  QuestionsAccountedFor
  RiskIsHeeded
  AnalysisIsJustified
  TurnsAreAnswered
PROPERTIES
  QuestionsNeverRepeated
  TurnEnds
CHECK_DEADLOCK FALSE
