CONSTANTS
  va = va
  Voter = {va}
  Contributors = {}
  Ciphertexts = {"x"}
  NSealedMax = 1
  MinSealedVote = 1
  MaxSeats = 1
  Batch = 1
  Transcripts = {"true"}
  Groups <- MCGroups
  OrderOf <- MCOrderOf
  OtherRoot <- MCOtherRoot
  Run = {"cli", "s1"}
  ServiceRun = {"s1"}
  TrueTranscript = "true"
SPECIFICATION MCSpec
CHECK_DEADLOCK FALSE
INVARIANTS
  CachedIsProven
