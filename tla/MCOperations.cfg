SPECIFICATION Spec
CONSTANTS
  Validators = {1, 2, 3}
  Faulty = {}
  StakeOf <- PivotStakes
  EpochHash <- EndsHash
  MaxRounds = 1
  ProposalMissLimit = 500
  VoteMissLimit = 1000
  DataRoot = FALSE
  EnforceDA = FALSE
  SmallClusterDA = FALSE
  Drainable = {2}
  MaxWraps = 0
  MaxRestarts = 1
  FaultyBlocks = 0
  PriorMisses = 0
  Nil = Nil
  None = None
INVARIANTS NoDoubleVote FaultInv
CHECK_DEADLOCK FALSE
CONSTRAINT OneRestart
