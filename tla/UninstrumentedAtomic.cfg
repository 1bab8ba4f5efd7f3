SPECIFICATION FairSpec
CONSTANTS
  Setups <- AtomicSetups
  InitialRegs <- SmallRegs
  CacheBase = 1000
  CacheSize = 1000
INVARIANTS
  PreRoutinesRun
