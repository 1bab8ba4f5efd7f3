SPECIFICATION FairSpec
CONSTANTS
  Setups <- ReentrySetups
  InitialRegs <- SmallRegs
  CacheBase = 1000
  CacheSize = 1000
PROPERTIES
  ForwardedEcallRuns
