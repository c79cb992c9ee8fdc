CONSTANTS
  Peer = {p1, p2, p3, p4}
  Room = {r1, r2, r3}
  NoPeer = NoPeer
  MaxRooms = 2
  MaxPeersPerRoom = 3
SPECIFICATION Spec
INVARIANTS
  TypeOK
  IndexAgrees
  PrincipalIsSenior
  WithinLimits
PROPERTIES
  PrincipalStays
  ImplementsSeniority
