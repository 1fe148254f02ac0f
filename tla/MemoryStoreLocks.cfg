SPECIFICATION Spec
CONSTANTS
  t1 = t1
  t2 = t2
  c1 = c1
  c2 = c2
  x = x
  y = y
  Legacy = Legacy
  NoTxn = NoTxn
  NoLock = NoLock
  Txn <- MCTxn
  Caller <- MCCaller
  Value <- MCValue
  CommitTs <- MCCommitTs
  MaxTs <- MCMaxTs
  Width <- MCWidth
  BigEndian <- MCBigEndian
  Coerce <- MCCoerce
  MaxByte = 5
  Key <- PrefixKeys
  RawKey <- PrefixRawKeys
  Batches <- PrefixBatches
  Imports <- PrefixImports
INVARIANT TypeOK
INVARIANT PutHoldsIntent
INVARIANT PutLeavesNoIntent
INVARIANT ReadsNewestUnlessShadowed
INVARIANT TableScanNewest
PROPERTY IntentOwner
PROPERTY RefusalChangesNothing
SYMMETRY MCSymmetry
