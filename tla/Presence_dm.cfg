\* A DM room: two messages, a fault.
SPECIFICATION FairSpec
CONSTANTS c1 = c1 c2 = c2 c3 = c3 ann = ann bob = bob cleo = cleo
CONSTANTS Http = Http Refresher = Refresher None = None
CONSTANTS Conns <- TwoConns Names <- ThePair Pair <- ThePair IsDM = TRUE
CONSTANTS MaxSaid = 2 MaxFaults = 1 MaxUpdates = 0
CHECK_DEADLOCK FALSE
INVARIANTS TypeOK AtMostOneLate
PROPERTIES ShownCatchesUp
