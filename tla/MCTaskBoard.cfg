CONSTANTS
  specialist = specialist
  generalist = generalist
  Agents <- MCAgents
  Capabilities <- MCCapabilities
  CapabilitiesOf <- MCCapabilitiesOf
  Needs <- MCNeeds
  RootNeeds <- MCRootNeeds
  Keys = {"root", "k1", "k2"}
  RootKey = "root"
  NoAgent = NoAgent
  MaxRounds = 4
  MaxTotalClaims = 2
  MaxTasks = 3
  MaxClaimsPerAgent = 2
  MaxClaimsPerAgentPerRound = 1
  MaxTaskDepth = 1
  MaxChildrenPerTask = 2
  MaxNoProgressRounds = 2
  MaxArtifacts = 1
  ChildTasksOnly = FALSE

SPECIFICATION Spec
INVARIANTS
  TypeOK
  DependenciesFirst
  LimitsHold
  NoDuplicateWork
  NothingRunnableAtDelivery
PROPERTIES
  VerdictsStand
CHECK_DEADLOCK FALSE
