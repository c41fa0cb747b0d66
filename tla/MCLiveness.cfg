SPECIFICATION SyncSpec
CONSTANTS
  Validators = {1, 2, 3, 4}
  Faulty = {}
  Live = {1, 2, 3}
  StakeOf <- EqualStakes
  EpochHash <- CrashedFirstHash
  MaxRounds = 3
  ProposalMissLimit = 500
  VoteMissLimit = 1000
  DataRoot = FALSE
  EnforceDA = FALSE
  SmallClusterDA = FALSE
  Drainable = {}
  MaxWraps = 0
  MaxRestarts = 0
  FaultyBlocks = 0
  PriorMisses = 0
  Nil = Nil
  None = None
PROPERTY EventuallyCommitted
CHECK_DEADLOCK FALSE
