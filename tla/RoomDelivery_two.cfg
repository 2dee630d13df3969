\* Two connections in a room, a chat event each, queues of one.
SPECIFICATION DSpec
CONSTANTS c1 = c1 c2 = c2 r1 = r1 None = None
CONSTANTS Conns <- BothConns Rooms <- OneRoom Followed <- Chat
CONSTANTS MaxEvents = 1 SendCap = 1 HistoryCap = 9 MaxLost = 0
CHECK_DEADLOCK FALSE
SYMMETRY Symmetry
INVARIANTS DTypeOK NoGap OnlyTheSlowAreCut
PROPERTIES ImplementsRoomLog
