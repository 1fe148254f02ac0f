SPECIFICATION Spec
CONSTANTS
  t1 = t1
  t2 = t2
  c1 = c1
  c2 = c2
  x = x
  y = y
  Legacy = Legacy
  NoTxn = NoTxn
  NoLock = NoLock
  Txn <- MCTxn
  Caller <- OneCaller
  Value <- MCValue
  CommitTs <- MCCommitTs
  MaxTs <- MCMaxTs
  Width <- MCWidth
  BigEndian <- MCBigEndian
  Coerce <- MCCoerce
  MaxByte = 5
  Key <- PrefixFreeKeys
  RawKey <- PrefixFreeRawKeys
  Batches <- PrefixFreeBatches
  Imports <- PrefixFreeImports
PROPERTY RestoreKeepsReads
