CONSTANTS
  va = va
  vb = vb
  Voter = {va, vb}
  NoHolder = NoHolder
  TokenId = {}
  MaxWeight = 3
  MinDirectVote = 0
  Costs = {0, 2}
  Amounts = {1, 2}
  Fees = {0, 1}
  PublicInputs <- MCOneRank
  SealedInputs <- MCTwoSealed
  MemberLists <- MCLoneMember
  SeatCounts = {}
  Orders <- MCOrders
  MaxProjects = 1
  MaxDeposits = 2
  MaxRevision = 1
  CloseChunk = 1
  OtherInputs <- MCOtherInputs
  MaxReports = 2
SPECIFICATION FairSpec
INVARIANTS
  CommittedInputs
  ResultCountsTheseInputs
PROPERTIES
  ImplementsEscrow
  RoundEnds
CHECK_DEADLOCK FALSE
