--------------------------- MODULE MCRoomDelivery ---------------------------
EXTENDS RoomDelivery
CONSTANTS c1, c2, r1
OneConn == {c1}
BothConns == {c1, c2}
OneRoom == {r1}
\* Every type of event, from every connection.
AllEvents == [c \in Conns |-> Kinds]
\* Chat messages and leaves: an event while the room is busy, an event as it empties.
ChatAndLeave == [c \in Conns |-> {"chat", "leave"}]
\* Chat messages.
Chat == [c \in Conns |-> {"chat"}]
\* The connections are interchangeable: used by the safety runs only.
Symmetry == Permutations(Conns)
=============================================================================
