SPECIFICATION FairSpec
CONSTANTS
  Setups <- BorrowedT6Setups
  InitialRegs <- SmallRegs
  CacheBase = 1000
  CacheSize = 1000
INVARIANTS
  GuestSeesItsT6
