SPECIFICATION Spec
CONSTANTS
  Validators = {1, 2, 3}
  Faulty = {3}
  StakeOf <- TripleStakes
  EpochHash <- FaultyFirstHash
  MaxRounds = 2
  ProposalMissLimit = 500
  VoteMissLimit = 1000
  DataRoot = FALSE
  EnforceDA = FALSE
  SmallClusterDA = FALSE
  Drainable = {}
  MaxWraps = 0
  MaxRestarts = 0
  FaultyBlocks = 2
  PriorMisses = 0
  Nil = Nil
  None = None
INVARIANTS JailedForCause NoSplitQuorum PrecommitsGrounded CertificatesAccepted
CHECK_DEADLOCK FALSE
CONSTRAINT LeanByzantine
