SPECIFICATION Spec
CONSTANTS
  None = None
  NoOp = NoOp
  ID = 1
  Peers <- MCPeers
  Known <- MCKnown
  LeaderLog <- MCLeaderLog
  Candidates = {1, 2}
  SnapshotGap = 1
  MaxRecords = 7
  MaxCrashes = 1
INVARIANT TypeOK
INVARIANT PromisedDurable
INVARIANT OneVotePerTerm
INVARIANT ReplayFaithful
INVARIANT DeadOnlyIf
INVARIANT AppliedInOrder
INVARIANT AppliedCursor
INVARIANT ElectableUnlessRestarted
CHECK_DEADLOCK FALSE
