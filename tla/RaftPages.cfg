SPECIFICATION Spec
CONSTANTS
  None = None
  NoOp = NoOp
  ID = 1
  Peers <- MCPeers
  Known <- MCKnown
  LeaderLog <- MCLongLog
  Candidates = {}
  SnapshotGap = 1
  MaxRecords = 10
  MaxCrashes = 0
INVARIANT AppliedInOrder
CHECK_DEADLOCK FALSE
