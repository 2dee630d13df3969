-------------------------- MODULE MCRoomPlacement --------------------------
EXTENDS RoomPlacement, TLC
CONSTANTS n1, n2, k1, k2
TwoNodes == {n1, n2}
TwoClients == {k1, k2}
Symmetry == Permutations(Nodes) \cup Permutations(Clients)
=============================================================================
