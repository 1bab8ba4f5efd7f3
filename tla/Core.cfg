SPECIFICATION FairSpec
CONSTANTS
  Setups <- EngineSetups
  InitialRegs <- SmallRegs
  CacheBase = 1000
  CacheSize = 1000
INVARIANTS
  CacheMirrorsBlocks
  CurrentBBOwnsIp
  GuestSeesItsT6
  EdgesStartAtLeader
  PreRoutinesRun
  PostRoutinesRun
  BBRoutinesBracket
PROPERTIES
  ImplementsGuestMachine
  GuestKeepsRunning
  ForwardedEcallRuns
