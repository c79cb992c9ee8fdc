CONSTANTS
  Size = 2
  Peer = {p1, p2, p3}
  NoSlot = NoSlot
  EarlyDeath = FALSE
  MaxDeaths = 2
SPECIFICATION FairSpec
INVARIANTS
  TypeOK
  CountsMatch
  AssignmentsCurrent
  ReadyWorkerIsUp
PROPERTIES
  StartEnds
  DeadAreReplaced
CHECK_DEADLOCK FALSE
