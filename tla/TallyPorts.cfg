CONSTANTS
  Voter = {a, b}
  RankValues = 4
  NumProjects = 3
  MaxCost = 2
  MinWeight = 1
  MaxWeight = 2
  MaxAbstaining = 0
  NSealedMax = 3
  Batch = 1
  K = 2
  Numbers = {0, 1, 2, 3}
SPECIFICATION MCSpec
CHECK_DEADLOCK FALSE
INVARIANTS
  PortsAgree
  HonestReportStands
  BackendsAgree
  ForgedReportFalls
