SPECIFICATION Spec
CONSTANTS
  Validators = {1, 2, 3, 4}
  Faulty = {4}
  StakeOf <- EqualStakes
  EpochHash <- RotatingHash
  MaxRounds = 2
  ProposalMissLimit = 500
  VoteMissLimit = 1000
  DataRoot = FALSE
  EnforceDA = FALSE
  SmallClusterDA = FALSE
  Drainable = {}
  MaxWraps = 0
  MaxRestarts = 0
  FaultyBlocks = 0
  PriorMisses = 0
  Nil = Nil
  None = None
INVARIANT CertifiedAgreement
CONSTRAINT LatePrecommit
CHECK_DEADLOCK FALSE
