SPECIFICATION Spec
CONSTANTS
  StackAddrs <- Memory
  InitialRegs <- DistinctRegs
  Exits <- SmallExits
  Written <- SmallWritten
  Values <- SmallValues
  Moves <- SmallMoves
  MaxSteps = 4
INVARIANTS
  SwitchTypeOK
  RegistersSurvive
  FrameShowsGuest
  StackAboveKept
PROPERTIES
  NextIsNative
