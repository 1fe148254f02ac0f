SPECIFICATION FairSpec
CONSTANTS
  a = a
  b = b
  s1 = s1
  s2 = s2
  t1 = t1
  t2 = t2
  c1 = c1
  c2 = c2
  x = x
  y = y
  NoLock = NoLock
  Key <- Keys
  Shard <- Shards
  Locate <- MCLocate
  Txn <- OneTxn
  Caller <- TwoCallers
  Outcomes <- NoFailure
  Lossy = FALSE
  Offers <- Rewrites
  Serves <- AnyTxn
  Value <- TwoValues
  Spaced <- OtherValue
  MaxWrites = 2
  MaxTs = 2
  MaxFaults = 0
  MaxRollbacks = 1
CHECK_DEADLOCK FALSE
INVARIANT CommittedOnly
PROPERTY IntentsReleased
