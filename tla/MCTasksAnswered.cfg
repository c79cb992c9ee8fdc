CONSTANTS
  Peer = {host, w1, l1}
  Host = host
  Worker = {w1}
  Lead = {l1}
  Room = {team}
  NoPeer = NoPeer
  MaxRooms = 1
  MaxPeersPerRoom = 4
  HostTask = {t1}
  LeadTask = {t3}
  NoId = NoId
  Reading = {now1, now2}
  ReuseIds = FALSE
  MaxHanded = 2
  MaxFanOuts = 1
  MaxNameless = 1
  MaxArrivals = 3
SPECIFICATION FairSpec
PROPERTIES
  SentIsAnswered
