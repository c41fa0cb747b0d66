SPECIFICATION Spec
CONSTANTS
  Peers = {p1}
  MIN_TIP_AGREEMENT = 1
  SNAPSHOT_INTERVAL = 2
  SnapshotsKept = 2
  TotalChunks = 1
  Divergent = {0}
  InitialTip = 3
  MaxTip = 4
  MAX_SYNC_BATCH = 2
  PendingCap = 1
  GossipGap = 9
  STATE_SYNC_THRESHOLD = 9
  KeysKnown = FALSE
  MaxRequests = 1
  MaxTips = 1
  MaxProbes = 0
  MaxFailures = 0
INVARIANT AppliedVerified
CHECK_DEADLOCK FALSE
