CONSTANTS
  va = va
  vb = vb
  vc = vc
  Voter = {va, vb, vc}
  Contributors = {va}
  Ciphertexts = {"x"}
  NSealedMax = 3
  MinSealedVote = 1
  MaxSeats = 3
  Batch = 2
  Transcripts = {"true", "other", "bad"}
  Groups <- MCGroups
  OrderOf <- MCOrderOf
  OtherRoot <- MCOtherRoot
  Run = {"r1", "r2"}
  TrueTranscript = "true"
SPECIFICATION MCFairSpec
CHECK_DEADLOCK FALSE
INVARIANTS
  CheckpointsFollow
  DecidedAsReported
PROPERTIES
  BatchesGetThere
