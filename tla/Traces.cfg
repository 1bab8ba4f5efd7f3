SPECIFICATION FairTraceSpec
CONSTANTS
  Setups <- TraceSetups
  InitialRegs <- SmallRegs
  CacheBase = 1000
  CacheSize = 1000
  TraceBlocks = 3
INVARIANTS
  TraceTypeOK
  ExitsMirrorText
  LinksAgree
  LinksPreserveT6
  TraceGuestSeesItsT6
  CurrentTraceOwnsIp
  TraceRoutinesRun
PROPERTIES
  TracesImplementGuestMachine
  GuestKeepsRunningInTraces
