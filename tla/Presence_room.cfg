\* An ordinary room: renames over HTTP and on the sockets, a fault.
SPECIFICATION Spec
CONSTANTS c1 = c1 c2 = c2 c3 = c3 ann = ann bob = bob cleo = cleo
CONSTANTS Http = Http Refresher = Refresher None = None
CONSTANTS Conns <- TwoConns Names <- AllNames Pair <- ThePair IsDM = FALSE
CONSTANTS MaxSaid = 0 MaxFaults = 1 MaxUpdates = 1
SYMMETRY Symmetry
CHECK_DEADLOCK FALSE
INVARIANTS CopyIsCurrent ReaderIsOnline NoGhost
