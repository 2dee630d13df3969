\* Three connections in one room.
SPECIFICATION FairSpec
CONSTANTS c1 = c1 c2 = c2 c3 = c3 r1 = r1 None = None
CONSTANTS Conns <- ThreeConns Rooms <- OneRoom
CHECK_DEADLOCK FALSE
INVARIANTS IInv TypeOK NoOrphanSubscriber JoinedRoomIsSubscribed RegisteredIsCurrent
PROPERTIES ImplementsRoomFeed JoinedClientIsServed IdleRoomIsReleasedIfHandlerFirst
