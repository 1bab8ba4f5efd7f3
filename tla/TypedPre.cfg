SPECIFICATION FairSpec
CONSTANTS
  Setups <- TypedPreSetups
  InitialRegs <- SmallRegs
  CacheBase = 1000
  CacheSize = 1000
INVARIANTS
  CacheMirrorsBlocks
  PreRoutinesRun
PROPERTIES
  ImplementsGuestMachineSansT6
