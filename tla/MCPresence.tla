----------------------------- MODULE MCPresence -----------------------------
EXTENDS Presence, TLC
CONSTANTS c1, c2, c3, ann, bob, cleo
TwoConns == {c1, c2}
ThreeConns == {c1, c2, c3}
AllNames == {ann, bob, cleo}
ThePair == {ann, bob}
Symmetry == {p @@ q : p \in Permutations(TwoConns), q \in Permutations(ThePair)}
=============================================================================
