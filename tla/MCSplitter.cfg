CONSTANTS
  MaxFrames = 3
  MaxReplaced = 2
SPECIFICATION Spec
INVARIANTS
  TypeOK
  FramesWhole
  LostOnlyWhenSplit
CHECK_DEADLOCK FALSE
