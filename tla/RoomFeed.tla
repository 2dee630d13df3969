------------------------------ MODULE RoomFeed ------------------------------
(***************************************************************************)
(* What one chat server promises about a room's Redis feed, without saying *)
(* how: at any moment a room has at most one registered feed, a feed is    *)
(* replaced only after it was detached, and a detached feed never returns. *)
(* RoomSubscription implements this with two locks, a flag and a           *)
(* generation number per room.                                             *)
(***************************************************************************)
CONSTANTS Feeds, Rooms, None

VARIABLES
  feed,   \* feed[r]: the feed registered for room r, or None
  used    \* feeds that have been registered at some time

vars == <<feed, used>>

Init ==
  /\ feed = [r \in Rooms |-> None]
  /\ used = {}

Attach(r, s) ==
  /\ feed[r] = None
  /\ s \notin used
  /\ feed' = [feed EXCEPT ![r] = s]
  /\ used' = used \cup {s}

\* One room when its last client leaves, every room at shutdown.
Detach(S) ==
  /\ feed' = [r \in Rooms |-> IF r \in S THEN None ELSE feed[r]]
  /\ UNCHANGED used

Next ==
  \/ \E r \in Rooms, s \in Feeds : Attach(r, s)
  \/ \E S \in SUBSET Rooms : Detach(S)

Spec == Init /\ [][Next]_vars
=============================================================================
