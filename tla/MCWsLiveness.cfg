CONSTANTS
  Peer = {host, a}
  Host = host
  ToolPeer = {host, a}
  Room = {r1, r2}
  NoPeer = NoPeer
  MaxRooms = 2
  MaxPeersPerRoom = 2
  Conn = {c1, c2}
  NoConn = NoConn
  MaxJoins = 2
  ClientsRejoin = FALSE
SPECIFICATION FairSpec
PROPERTIES
  DepartedForgotten
  UnjoinedClosed
