CONSTANTS
  alice = alice
  bob = bob
  k1 = k1
  k2 = k2
  tab1 = tab1
  tab2 = tab2
  User <- MCUsers
  OrganizerKey <- MCOrganizerKeys
  NoOrganizer = NoOrganizer
  Idle = Idle
  Costs = {1}
  MaxProposals = 2
  MaxDrafts = 3
  MaxProjects = 2
  Pages <- MCPages
  Purse = 2
  MaxVotes = 2
  MaxSent = 2
  MaxReplaced = 1
SYMMETRY Symmetry
SPECIFICATION MCSpec
CHECK_DEADLOCK FALSE
INVARIANTS
  PrivateOrPublic
  ReadableOnceOpen
  OnlyAcceptedDisclosed
  PaidOnce
  ToldTruly
PROPERTIES
  NoLostUpdate
