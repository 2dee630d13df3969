SPECIFICATION Spec
CONSTANTS
  a = a
  b = b
  c = c
  s1 = s1
  s2 = s2
  Names = {a, b, c}
  Registered = {a, b}
  Slots = {s1, s2}
  MaxCalls = 5
  MaxFaults = 1
SYMMETRY SocialSymmetry
INVARIANTS
  SocialTypeOK
  LeftoverIsCrossed
  RemovedStaysRemoved
  DMListedForBoth
  OrphansAreRenamed
  EmptyRenameIsRaced
  SocialInv
CHECK_DEADLOCK FALSE
