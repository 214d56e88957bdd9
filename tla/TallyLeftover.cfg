CONSTANTS
  Voter = {a, b}
  RankValues = 3
  NumProjects = 2
  MaxCost = 3
  MinWeight = 0
  MaxWeight = 2
  MaxAbstaining = 1
  NSealedMax = 3
  Batch = 1
  K = 2
  Numbers = {0}
SPECIFICATION MCSpec
INVARIANTS
  OnlyAbstainingLeft
CHECK_DEADLOCK FALSE
