CONSTANTS
  Peer = {host, w1, w2, l1}
  Host = host
  Worker = {w1, w2}
  Lead = {l1}
  Room = {team}
  NoPeer = NoPeer
  MaxRooms = 1
  MaxPeersPerRoom = 4
  HostTask = {t1}
  LeadTask = {t3}
  NoId = NoId
  Reading = {now1}
  ReuseIds = FALSE
  MaxHanded = 2
  MaxFanOuts = 1
  MaxNameless = 1
  MaxArrivals = 2
SPECIFICATION Spec
SYMMETRY Symmetry
INVARIANTS
  TypeOK
  ResultsSeenOnce
  NoTaskForgotten
  DoneWasDone
PROPERTIES
  DoneStaysDone
