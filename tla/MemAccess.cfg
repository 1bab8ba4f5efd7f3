SPECIFICATION FairSpec
CONSTANTS
  Cases <- AccessCases
  InitialRegs <- SmallRegs
  PC = 65652
  dataOffset = 14386
INVARIANTS
  TypeOK
  ResultMatchesGuest
  ExitMatchesGuest
  CodecIsExact
PROPERTIES
  SequenceEnds
