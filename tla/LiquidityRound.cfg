CONSTANTS
  va = va
  vb = vb
  k1 = k1
  p1 = p1
  Voter = {va, vb}
  NoHolder = NoHolder
  TokenId = {}
  MaxWeight = 9
  MinDirectVote = 0
  Costs = {1}
  Amounts = {5}
  Fees = {0}
  PublicInputs = {}
  SealedInputs <- MCSealed
  MemberLists = {}
  SeatCounts = {}
  Orders <- MCOrders
  MaxProjects = 1
  MaxDeposits = 1
  MaxRevision = 0
  CloseChunk = 1
  OtherInputs <- MCOtherInputs
  MaxReports = 1
  Provider = {va, vb}
  Position = {p1, p2}
  LPPool = {k1}
  PoolOf <- MCPoolOf
  Value <- MCValue
  Deadline = 2
  LateTicks = 1
  MaxPriceAge = 1
  PriceInterval = 1
  MaxSponsorships = 1
  MaxPositions = 2
  MaxAccounts = 3
  Prices = {1, 2}
  Liquidities = {1, 2}
  MinimumValues = {1}
  LPChunks = {1, 3}
  MaxLPChanges = 3
SPECIFICATION MCFairSpec
CHECK_DEADLOCK FALSE
INVARIANTS
  CommittedInputs
  AccrualExact
  CreditsCovered
PROPERTIES
  ClosesWithoutWorkflow
