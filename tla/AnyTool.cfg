SPECIFICATION Spec
CONSTANTS
  Setups <- AnySetups
  InitialRegs <- SmallRegs
  CacheBase = 1000
  CacheSize = 120
INVARIANTS
  TypeOK
  BlocksDescribeText
