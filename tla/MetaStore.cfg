SPECIFICATION Spec
CONSTANTS
  Nil = Nil
  NoAddr = NoAddr
  MaxKey = 4
  MaxRanges = 4
  ShardID <- MCShardID
  Addr <- MCAddr
  SplitKeys <- OrMissing
INVARIANT TypeOK
INVARIANT CoveredOnce
INVARIANT LookupsAgree
PROPERTY SplitMovesOnlyTarget
