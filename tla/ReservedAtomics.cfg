SPECIFICATION Spec
CONSTANTS
  Cases <- ReservedCases
  InitialRegs <- SmallRegs
  PC = 65652
  dataOffset = 14386
INVARIANTS
  ReservedReachMemory
