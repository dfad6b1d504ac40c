SPECIFICATION FairSpec
CONSTANTS
  Strings <- MCStrings
  Hash <- MCHash
  InitialBuckets = 4
  MaxLoadNum = 1
  MaxLoadDen = 2
  MaxStrings = 6
  kInvalidStringId = 255
INVARIANTS
  TypeOK
  TableAgrees
PROPERTIES
  InternReturns
  ImplementsInternPool
