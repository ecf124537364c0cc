CONSTANTS
  Profiles = {"scheduler", "analysis", "unknown"}
  Configured = {"scheduler", "analysis"}
  OutputCap <- MCOutputCap
  Price = 1
  InputTokens = {1, 3}
  OutputTokens = {0, 1, 3}
  MaxCalls = 4
  MaxInput = 6
  MaxOutput = 4
  MaxCost = 10
  Capabilities = {"risk_assessment", "response_drafting"}
  RefLists <- MCRefLists
  Priorities = {50, 100}
  Hints = {1}
  SchedulerProfile = "scheduler"
  MaxRunSteps = 4
  WindowSize = 5
  Threshold = 3
  MaxSteps = 5

SPECIFICATION Spec
INVARIANTS
  TypeOK
  AnswersAreWithinBudget
  IntentsAreBounded
  LoopsAreStopped
PROPERTIES
  OverrunIsLast
CHECK_DEADLOCK FALSE
