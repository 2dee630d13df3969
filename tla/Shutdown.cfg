SPECIFICATION FairSpec
CONSTANTS
  c1 = c1
  c2 = c2
  None = None
  Conns = {c1, c2}
  Cap = 1
  MaxEvents = 2
INVARIANTS
  ShutdownTypeOK
  FrameFollowsBye
  PanicNeedsBacklog
  HolderCanLetGo
  SInv
PROPERTIES
  ShutdownEnds
CHECK_DEADLOCK FALSE
