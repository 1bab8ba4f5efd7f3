SPECIFICATION FairTraceSpec
CONSTANTS
  Setups <- PatchedJumpSetups
  InitialRegs <- SmallRegs
  CacheBase = 1000
  CacheSize = 1000
  TraceBlocks = 3
INVARIANTS
  LinksPreserveT6
