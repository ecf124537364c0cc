CONSTANTS
  specialist = specialist
  generalist = generalist
  Agents <- MCAgents
  Capabilities <- MCCapabilities
  CapabilitiesOf <- MCCapabilitiesOf
  Needs <- MCTwoNeeds
  RootNeeds <- MCRootNeeds
  Keys = {"root", "k1", "k2", "k3"}
  RootKey = "root"
  NoAgent = NoAgent
  MaxRounds = 4
  MaxTotalClaims = 2
  MaxTasks = 4
  MaxClaimsPerAgent = 2
  MaxClaimsPerAgentPerRound = 1
  MaxTaskDepth = 2
  MaxChildrenPerTask = 3
  MaxNoProgressRounds = 2
  MaxArtifacts = 1
  ChildTasksOnly = TRUE

SPECIFICATION Spec
INVARIANT ClaimOverrunBounded
PROPERTY ImplementsContract
CHECK_DEADLOCK FALSE
