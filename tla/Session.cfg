SPECIFICATION Spec
CONSTANTS
  Sessions <- AllSessions
  Addresses <- SmallImage
  HeaderAddr = 14
  HeaderSize = 1
  HostWords = 9
  StackWords = 48
  MaxVisits = 5
INVARIANTS
  SessionTypeOK
  ImageMatchesFile
  NoCallMissed
  GraphIsAWalk
  GuestFindsItsArgs
