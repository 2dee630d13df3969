------------------------- MODULE MCRoomSubscription -------------------------
EXTENDS RoomSubscription
CONSTANTS c1, c2, c3, r1
TwoConns == {c1, c2}
ThreeConns == {c1, c2, c3}
OneRoom == {r1}
=============================================================================
