CONSTANTS
  Size = 2
  Peer = {p1, p2, p3}
  NoSlot = NoSlot
  EarlyDeath = FALSE
  MaxDeaths = 2
SPECIFICATION Spec
INVARIANT
  StoppedIsStopped
CHECK_DEADLOCK FALSE
