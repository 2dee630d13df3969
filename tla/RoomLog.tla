------------------------------ MODULE RoomLog ------------------------------
(***************************************************************************)
(* What a chat server promises about the messages of its rooms, without    *)
(* saying how: a room's messages arrive on feeds, each with one order.  A  *)
(* client enters at the end of all of them and is shown the entries of its *)
(* own room from there one by one, each feed in its order, every entry     *)
(* once and none left out, for as long as it is shown anything.  (A server *)
(* has several feeds of a room when a subscriber that is being closed runs *)
(* beside its successor: an event may then be on both, and two clients may *)
(* see the feeds interleaved in two ways.)  RoomDelivery implements this   *)
(* with subscriber goroutines, bounded queues and one writer per client.   *)
(***************************************************************************)
EXTENDS Naturals, Sequences

CONSTANTS Clients, Feeds, Rooms, Messages, None

VARIABLES
  home,    \* home[f]: the room of feed f
  log,     \* log[f]: the messages on feed f
  room,    \* room[c]: the room c has entered, or None
  seen     \* seen[c][f]: how much of log[f] is behind c

vars == <<home, log, room, seen>>

Init ==
  /\ home \in [Feeds -> Rooms]
  /\ log = [f \in Feeds |-> <<>>]
  /\ room = [c \in Clients |-> None]
  /\ seen = [c \in Clients |-> [f \in Feeds |-> 0]]

Post(f, m) ==
  /\ log' = [log EXCEPT ![f] = Append(@, m)]
  /\ UNCHANGED <<home, room, seen>>

Enter(c, r) ==
  /\ room[c] = None
  /\ room' = [room EXCEPT ![c] = r]
  /\ seen' = [seen EXCEPT ![c] = [f \in Feeds |-> Len(log[f])]]
  /\ UNCHANGED <<home, log>>

\* The next one on f, if there is one.
Show(c, f) ==
  /\ home[f] = room[c]
  /\ seen[c][f] < Len(log[f])
  /\ seen' = [seen EXCEPT ![c][f] = @ + 1]
  /\ UNCHANGED <<home, log, room>>

Next ==
  \/ \E f \in Feeds, m \in Messages : Post(f, m)
  \/ \E c \in Clients, r \in Rooms : Enter(c, r)
  \/ \E c \in Clients, f \in Feeds : Show(c, f)

Spec == Init /\ [][Next]_vars
=============================================================================
