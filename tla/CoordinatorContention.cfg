SPECIFICATION FairSpec
CONSTANTS
  a = a
  b = b
  s1 = s1
  s2 = s2
  t1 = t1
  t2 = t2
  c1 = c1
  c2 = c2
  x = x
  y = y
  NoLock = NoLock
  Key <- Keys
  Shard <- Shards
  Locate <- MCLocate
  Txn <- TwoTxns
  Caller <- TwoCallers
  Outcomes <- Refused
  Lossy = FALSE
  Offers <- OwnValue
  Serves <- OwnTxn
  Value <- TwoValues
  Spaced <- NoValues
  MaxWrites = 2
  MaxTs = 2
  MaxFaults = 1
  MaxRollbacks = 0
CHECK_DEADLOCK FALSE
INVARIANT TypeOK
INVARIANT CommittedOnly
INVARIANT AtomicUnlessDisturbed
PROPERTY IntentsReleased
