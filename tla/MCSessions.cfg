CONSTANTS
  u1 = u1
  Users <- MCUsers
  Classes <- MCClasses
  MaxConnects = 2
  MaxPieces = 3
  MaxBuffer = 2
  MaxPackage = 3
  SizeMod = 8

SPECIFICATION FairSpec

INVARIANT TypeOK
INVARIANT OneWriteInFlight
INVARIANT OneReadInFlight
INVARIANT NeverDeaf
INVARIANT NoOrphanSocket
INVARIANT LenIsExact
INVARIANT ClosedIsForgotten
PROPERTY SessionIsChannel
PROPERTY ConnectSettles
PROPERTY WritesDrain
CHECK_DEADLOCK FALSE
