\* Finding: a subscription nobody is left to stop.
SPECIFICATION FairSpec
CONSTANTS c1 = c1 c2 = c2 c3 = c3 r1 = r1 None = None
CONSTANTS Conns <- TwoConns Rooms <- OneRoom
CHECK_DEADLOCK FALSE
PROPERTIES IdleRoomIsReleased
