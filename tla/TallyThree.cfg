CONSTANTS
  Voter = {a, b}
  RankValues = 4
  NumProjects = 3
  MaxCost = 3
  MinWeight = 0
  MaxWeight = 2
  MaxAbstaining = 1
  NSealedMax = 3
  Batch = 1
  K = 2
  Numbers = {0}
SPECIFICATION MCSpec
CHECK_DEADLOCK FALSE
INVARIANTS
  TypeOK
  Conservation
  SpentWithinBudget
  InclusionPSC
PROPERTIES
  ProportionalCharge
