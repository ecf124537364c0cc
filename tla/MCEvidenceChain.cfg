SPECIFICATION Spec
CONSTANTS
  Laws = {l1}
  Cases = {c1}
  Payloads <- MCPayloads
  EarlierEvidence = {c1}
  Dates = {0, 1, 2}
  NoDate = NoDate
  HasModel = TRUE
  MaxTaskDepth = 10
  MaxClaimsPerAgent = 4
  MaxRefs = 1
  MaxReindex = 1
INVARIANTS
  SupportedIsInForce
  EvidenceIsTraced
  GateAgreesWithReview
CHECK_DEADLOCK FALSE
