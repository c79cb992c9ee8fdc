CONSTANTS
  Peer = {host, a, b}
  Host = host
  ToolPeer = {host, a, b}
  Room = {r1}
  NoPeer = NoPeer
  MaxRooms = 2
  MaxPeersPerRoom = 2
  Conn = {c1, c2, c3}
  NoConn = NoConn
  MaxJoins = 2
  ClientsRejoin = FALSE
SPECIFICATION Spec
SYMMETRY Symmetry
INVARIANTS
  TypeOK
  RegistryLive
  MembersConnected
  NoticesAccurate
