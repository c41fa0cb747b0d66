SPECIFICATION Spec
CONSTANTS
  Ids = {1, 2, 3, 4, 5, 6}
  Genesis <- SmallFourth
  MIN_STAKE = 2
  MIN_VALIDATORS = 3
  BONDING_PERIOD_EPOCHS = 1
  UNBONDING_PERIOD_EPOCHS = 2
  STAKE_UPDATE_DELAY_EPOCHS = 1
  Heights = {}
  Hashes = {}
  Signers = {}
  MaxRecords = 2
  EPOCH_LENGTH = 2
  Requests <- MixedRequests
  EquivocationRate = 6643
  DowntimeRates = {333}
  MaxHeight = 5
  MaxChanges = 3
  MaxFaults = 1
INVARIANTS TypeOK NothingLost BoundaryLimits BoundaryQuorumsMeet
 
CHECK_DEADLOCK FALSE
CONSTRAINTS WideUntilFourth OneOfTwins
