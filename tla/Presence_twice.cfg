\* Finding: a user who closes one of his two connections counts as away.
SPECIFICATION Spec
CONSTANTS c1 = c1 c2 = c2 c3 = c3 ann = ann bob = bob cleo = cleo
CONSTANTS Http = Http Refresher = Refresher None = None
CONSTANTS Conns <- ThreeConns Names <- ThePair Pair <- ThePair IsDM = TRUE
CONSTANTS MaxSaid = 1 MaxFaults = 0 MaxUpdates = 0
CHECK_DEADLOCK FALSE
PROPERTIES CountedOnlyIfAway
