SPECIFICATION Spec
CONSTANTS
  Validators = {1, 2, 3}
  Faulty = {}
  StakeOf <- PivotStakes
  EpochHash <- EndsHash
  MaxRounds = 2
  ProposalMissLimit = 500
  VoteMissLimit = 1000
  DataRoot = FALSE
  EnforceDA = FALSE
  SmallClusterDA = FALSE
  Drainable = {}
  MaxWraps = 0
  MaxRestarts = 0
  FaultyBlocks = 0
  PriorMisses = 0
  Nil = Nil
  None = None
INVARIANTS TypeOK DecisionIsFinal AgreementInv
PROPERTY ImplementsDecision
CHECK_DEADLOCK FALSE
CONSTRAINT Lean
