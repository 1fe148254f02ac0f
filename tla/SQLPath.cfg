SPECIFICATION Spec
CONSTANTS
  k1 = k1
  k2 = k2
  v = v
  r = r
  NoLock = NoLock
  NoHint = NoHint
  NoExport = NoExport
  Default = Default
  AutoTxn = "auto"
  AutoTs = 1
  Key <- MCKey
  Client <- MCClient
  Node <- MCNode
  ScatterIDs <- MCNode
  GetShardID <- MCGetShardID
  Hints <- NoHints
  Statements <- MCStatements
  TxnEntries <- MCTxnEntries
  ExportKeys <- K1
  ExportBeyond <- K2
  Longer <- MCLonger
  MaxLog = 2
  MaxFaults = 1
  MaxIngests = 1
INVARIANT TypeOK
INVARIANT RowsCommitted
INVARIANT ScatterComplete
INVARIANT LastInsertStands
INVARIANT MonotonicPointReads
PROPERTY VersionsKept
PROPERTY RequestsAnswered
CHECK_DEADLOCK FALSE
