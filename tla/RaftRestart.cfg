SPECIFICATION Spec
CONSTANTS
  None = None
  NoOp = NoOp
  ID = 1
  Peers <- MCPeers
  Known <- MCKnown
  LeaderLog <- MCLeaderLog
  Candidates = {}
  SnapshotGap = 1
  MaxRecords = 7
  MaxCrashes = 1
INVARIANT StateRestored
CHECK_DEADLOCK FALSE
