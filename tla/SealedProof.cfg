CONSTANTS
  va = va
  vb = vb
  Voter = {va, vb}
  NoHolder = NoHolder
  TokenId = {t1}
  MaxWeight = 6
  MinDirectVote = 3
  Costs = {1}
  Amounts = {2, 3}
  Fees = {0}
  PublicInputs <- MCRanks
  SealedInputs <- MCShortSealed
  MemberLists <- MCMembers
  SeatCounts = {0, 2}
  Orders <- MCOrders
  MaxProjects = 1
  MaxDeposits = 2
  MaxRevision = 2
  Key = {pk, pk2}
  tallierPk = pk
  OtherRound <- MCOtherRound
  Outcome <- MCOutcome
SPECIFICATION ZiskSpec
INVARIANTS
  RosterComplete
  BallotsAreBacked
  FundsProvenOutcome
CHECK_DEADLOCK FALSE
