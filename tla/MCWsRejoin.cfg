CONSTANTS
  Peer = {host, a, b}
  Host = host
  ToolPeer = {host}
  Room = {r1}
  NoPeer = NoPeer
  MaxRooms = 1
  MaxPeersPerRoom = 2
  Conn = {c1, c2}
  NoConn = NoConn
  MaxJoins = 2
  ClientsRejoin = TRUE
SPECIFICATION Spec
INVARIANT RegistryLive
