CONSTANTS
  va = va
  vb = vb
  Voter = {va, vb}
  RankValues = 3
  TokenId = {t1, t2}
  NoHolder = NoHolder
  Costs = {0, 1, 2}
  Amounts = {1, 2, 3}
  Fees = {0, 1}
  BallotInputs <- MCBallots
  MemberLists <- MCMembers
  SeatCounts = {0, 1}
  MaxProjects = 2
  MaxDeposits = 2
  MaxDonations = 1
  MaxRevision = 2
SPECIFICATION MCFairSpec
INVARIANTS
  WeightIsEarned
  ReadyForTally
PROPERTIES
  TallyInputsFrozen
  AcceptedBallotsDecide
  ImplementsEscrow
  RoundEnds
  FundedGetPaid
CHECK_DEADLOCK FALSE
