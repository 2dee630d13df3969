\* Finding: a slow client takes the process down.
SPECIFICATION DSpec
CONSTANTS c1 = c1 c2 = c2 r1 = r1 None = None
CONSTANTS Conns <- BothConns Rooms <- OneRoom Followed <- ChatAndLeave
CONSTANTS MaxEvents = 2 SendCap = 1 HistoryCap = 9 MaxLost = 0
CHECK_DEADLOCK FALSE
SYMMETRY Symmetry
INVARIANTS SlowClientIsIsolated
