\* One connection, every type of event, a failing LPush and a history of two.
SPECIFICATION DeliverySpec
CONSTANTS c1 = c1 c2 = c2 r1 = r1 None = None
CONSTANTS Conns <- OneConn Rooms <- OneRoom Followed <- AllEvents
CONSTANTS MaxEvents = 2 SendCap = 2 HistoryCap = 2 MaxLost = 1
CHECK_DEADLOCK FALSE
INVARIANTS SeenIsStored
PROPERTIES QueuedIsDelivered
