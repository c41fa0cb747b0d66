SPECIFICATION Spec
CONSTANTS
  Heights = {1, 2, 3, 4, 5}
  Hashes = {h1, h2}
  Signers = {1, 2}
  MaxRecords = 2
  Blocks = {1, 2, 3, 4, 5}
  Parents <- ForkAndJoin
  ttl_rounds = 1
  cap = 3
  MaxRound = 3
  Shards = {0, 1}
  OwnShard = 0
  MessageEnergies = {1, 2}
  MAX_PENDING_RECEIPTS = 3
  MAX_PER_SHARD_QUEUE = 2
  MaxId = 4
  Peers = {p1, p2}
  MIN_TIP_AGREEMENT = 2
  SNAPSHOT_INTERVAL = 2
  SnapshotsKept = 3
  TotalChunks = 3
  Divergent = {0, 1}
  SnapshotTip = 3
  SnapshotStarts = 2
  MaxHeight = 3
  MaxCrashes = 2
  AlwaysTruncates = TRUE
  Nodes = {n1, n2}
  ObjectIds = {1, 2}
  Owners = {w1}
  Energies = {1, 3}
  EnergyBits = 3
  half_life = 2
  grace_period = 2
  max_scan_per_epoch = 2
  BASE_OBJECT_BYTES = 2
  DataBytes = 1
  MaxEpoch = 8
  Txs <- MixedTxs
  Accounts = {"a1", "a2", "a3"}
  ObjIds = {"o1", "o2"}
  StakeIds = {"v1", "v2"}
  GenesisDb <- SmallLedger
  Gas <- UnitGas
  ExtraFee <- ObjectFees
  base_fee = 1
  block_gas_limit = 3
  MIN_STORAGE_DEPOSIT = 1
  UNBONDING_EPOCHS = 1
  MaxBlockTxs = 3
  MaxBlocks = 1
  PoolTxs <- FewTxs
  MAX_MEMPOOL_SIZE = 3
  MAX_MEMPOOL_BYTES = 4
  MAX_TXS_PER_ACCOUNT = 2
  MAX_TX_AGE_EPOCHS = 1
  MAX_TXS_PER_BLOCK = 3
  GasLimit = 2
  MAX_BLOCK_SIZE_BYTES = 2
  AntichainModes = {TRUE, FALSE}
  ForeignBlocks <- OthersBlock
  MaxPoolHeight = 4
INVARIANTS RecordedOnce WindowIsNewest IndexIsInverse WaitsForUnseen MessagesAccounted FreshestSurvive SnapshotWhole RecoveryExact LifeIsExact GhostsProvable StateRootsAgree ParallelIsSequential GasWithinLimit SupplyNeverGrows NonceUsedOnce PoolConsistent NothingStranded
PROPERTIES FinalityIsStable ImplementsCausalDelivery
CHECK_DEADLOCK FALSE
