--------------------------- MODULE RoomPlacement ---------------------------
(***************************************************************************)
(* Which node hosts a room.  The directory (src/apps/directory) keeps a    *)
(* table of chat nodes in memory, fed by their heartbeats, and a lease per *)
(* room in Redis; /join routes a client to the lease's owner, or claims or *)
(* takes over the lease for a healthy node.  A node admits a WebSocket     *)
(* only if the lease is its own (claimOrGetRoomOwner).                     *)
(*                                                                         *)
(* One room: every table is per room, except that a heartbeat without any  *)
(* occupied room carries no counts at all, which Beat's otherRooms covers. *)
(* Time is counted in heartbeat periods (5s): every node that is up takes  *)
(* one snapshot per period, and a snapshot arrives or is lost within its   *)
(* period (the HTTP client gives up after 1s).  A drain is over within a   *)
(* period: gracefulShutdown cancels the context that it waits with.        *)
(***************************************************************************)
EXTENDS Naturals, FiniteSets

CONSTANTS
  Nodes, Clients, None,
  HealthyTTL,    \* periods of silence after which a node counts as dead (10s)
  LeaseTTL,      \* periods a lease lives without a refresh (60s)
  Capacity,      \* ROOM_CAPACITY
  MaxSilence,    \* assumed of the network: no node that is up is silent longer
  MaxMissed,     \* assumed of Redis: refreshes of a lease it fails in a row
  MaxFaults      \* bound: restarts of the directory, crashes and drains of nodes,
                 \* and lease refreshes that Redis fails, taken together

ASSUME PlacementAssumption ==
  /\ None \notin Nodes
  /\ HealthyTTL \in Nat /\ LeaseTTL \in Nat /\ Capacity \in Nat
  /\ MaxSilence \in Nat /\ MaxMissed \in Nat /\ MaxFaults \in Nat
  /\ HealthyTTL < LeaseTTL
  /\ IsFiniteSet(Clients)

VARIABLES
  node,       \* node[n]: "up", "draining", "down"
  members,    \* members[n]: the clients n has in the room (roomsCounter)
  beaten,     \* nodes that have taken this period's snapshot
  flight,     \* flight[n]: n's heartbeats on their way
  app,        \* app[n]: the directory's record of n
  lease,      \* the owner in Redis, or None
  left,       \* periods until the lease expires
  missed,     \* refreshes of this lease that Redis has failed since the last one
  req,        \* req[k]: where client k's attempt to enter the room stands
  faults,     \* how many of those faults have happened
  settled     \* nodes whose heartbeat has refreshed the lease since the directory
              \* started, for clients they have had ever since (KeptWhileServed)

nodeVars == <<node, members, beaten, flight>>
leaseVars == <<lease, left, missed>>
vars == <<nodeVars, app, leaseVars, req, faults, settled>>

Unknown == [known |-> FALSE, healthy |-> FALSE, draining |-> FALSE,
            count |-> 0, silence |-> 0]
Idle == [pc |-> "idle", owner |-> None, stale |-> None, at |-> None, ranked |-> {}]

\* The directory has been up and heard from every node; nobody is in the room.
Init ==
  /\ node = [n \in Nodes |-> "up"]
  /\ members = [n \in Nodes |-> {}]
  /\ beaten = {}
  /\ flight = [n \in Nodes |-> {}]
  /\ app = [n \in Nodes |-> [Unknown EXCEPT !.known = TRUE, !.healthy = TRUE]]
  /\ lease = None /\ left = 0 /\ missed = 0
  /\ req = [k \in Clients |-> Idle]
  /\ faults = 0
  /\ settled = {}

\* One more fault of the bounded ones.
Fault == faults < MaxFaults /\ faults' = faults + 1

-----------------------------------------------------------------------------
(* Heartbeats.                                                             *)

\* sendHeartbeat's payload.  The counts hold occupied rooms only and are left
\* out of it when there is none.
Snapshot(n, draining, otherRooms) ==
  [count |-> Cardinality(members[n]),
   carried |-> members[n] # {} \/ otherRooms,
   draining |-> draining]

Beat(n, otherRooms) ==
  /\ node[n] # "down"
  /\ n \notin beaten
  /\ beaten' = beaten \cup {n}
  /\ flight' = [flight EXCEPT ![n] =
                  @ \cup {Snapshot(n, node[n] = "draining", otherRooms)}]
  /\ UNCHANGED <<node, members, app, leaseVars, req, faults, settled>>

\* The record is replaced, the counts only if there are any.
Recorded(n, hb) ==
  [known |-> TRUE, healthy |-> TRUE, draining |-> hb.draining, silence |-> 0,
   count |-> IF hb.carried THEN hb.count ELSE app[n].count]

\* Mutant: the lease of an occupied room is left to run out.
HeartbeatHandlerNoRefresh(n, hb) ==
  /\ hb \in flight[n]
  /\ flight' = [flight EXCEPT ![n] = @ \ {hb}]
  /\ app' = [app EXCEPT ![n] = Recorded(n, hb)]
  /\ settled' = IF /\ hb.count > 0 /\ lease = n /\ members[n] # {}
                   /\ \A k \in Clients : req[k].stale # n
                THEN settled \cup {n} ELSE settled
  /\ UNCHANGED <<node, members, beaten, leaseVars, req, faults>>

\* Under the directory's mutex, the Redis calls included: the lease of an
\* occupied room is given its full life again if this node still owns it.
HeartbeatHandler(n, hb) ==
  /\ hb \in flight[n]
  /\ flight' = [flight EXCEPT ![n] = @ \ {hb}]
  /\ app' = [app EXCEPT ![n] = Recorded(n, hb)]
  /\ IF hb.count > 0 /\ lease = n
     THEN left' = LeaseTTL /\ missed' = 0
     ELSE UNCHANGED <<left, missed>>
  /\ settled' = IF /\ hb.count > 0 /\ lease = n /\ members[n] # {}
                   /\ \A k \in Clients : req[k].stale # n
                THEN settled \cup {n} ELSE settled
  /\ UNCHANGED <<node, members, beaten, lease, req, faults>>

\* Redis fails the refresh: logged, and the rest of the handler goes on.
RefreshFails(n, hb) ==
  /\ hb \in flight[n]
  /\ hb.count > 0
  /\ Fault
  /\ lease = n => missed < MaxMissed
  /\ missed' = IF lease = n THEN missed + 1 ELSE missed
  /\ flight' = [flight EXCEPT ![n] = @ \ {hb}]
  /\ app' = [app EXCEPT ![n] = Recorded(n, hb)]
  /\ UNCHANGED <<node, members, beaten, lease, left, req, settled>>

\* MarkStale, called by every /join and by a ticker.
Marked ==
  [n \in Nodes |->
     [app[n] EXCEPT !.healthy = app[n].known /\ ~app[n].draining
                                /\ app[n].silence <= HealthyTTL]]

MarkStale ==
  /\ app' = Marked
  /\ UNCHANGED <<nodeVars, leaseVars, req, faults, settled>>

-----------------------------------------------------------------------------
(* JoinHandler, for client k.                                              *)

Eligible(n) == app[n].healthy /\ ~app[n].draining /\ app[n].count < Capacity

\* Unknown to the directory, or silent for longer than the heartbeat TTL.
Gone(n) == ~app[n].known \/ app[n].silence > HealthyTTL

Candidates == {n \in Nodes : app[n].healthy /\ ~app[n].draining}

\* MarkStale, then the lookup; a Redis error is treated as "no owner".
LookUpOwner(k) ==
  /\ req[k].pc = "idle"
  /\ app' = Marked
  /\ \E owner \in {lease, None} :
       req' = [req EXCEPT ![k] =
                 IF owner = None THEN [Idle EXCEPT !.pc = "listing"]
                 ELSE [Idle EXCEPT !.pc = "asked", !.owner = owner]]
  /\ UNCHANGED <<nodeVars, leaseVars, faults, settled>>

RouteToOwner(k) ==
  LET owner == req[k].owner IN
  /\ req[k].pc = "asked"
  /\ Eligible(owner)
  /\ req' = [req EXCEPT ![k] = [Idle EXCEPT !.pc = "routed", !.at = owner]]
  /\ UNCHANGED <<nodeVars, app, leaseVars, faults, settled>>

\* The owner cannot take the client.  Each of the reads that follow takes the
\* directory's lock again.
OwnerIneligible(k) ==
  /\ req[k].pc = "asked"
  /\ ~Eligible(req[k].owner)
  /\ req' = [req EXCEPT ![k].pc = "ineligible"]
  /\ UNCHANGED <<nodeVars, app, leaseVars, faults, settled>>

\* Only a dead owner may be replaced.
JudgeOwner(k) ==
  LET owner == req[k].owner IN
  /\ req[k].pc = "ineligible"
  /\ req' = [req EXCEPT ![k] =
       [Idle EXCEPT !.pc = "listing", !.stale = IF Gone(owner) THEN owner ELSE None]]
  /\ UNCHANGED <<nodeVars, app, leaseVars, faults, settled>>

\* The ranked list of nodes to try is any order of the healthy ones; with none of
\* them the answer is 503.
ListHealthy(k) ==
  /\ req[k].pc = "listing"
  /\ req' = [req EXCEPT ![k] =
       IF Candidates = {} THEN Idle
       ELSE [@ EXCEPT !.pc = "choosing", !.ranked = Candidates]]
  /\ UNCHANGED <<nodeVars, app, leaseVars, faults, settled>>

\* TryClaim on a free lease; Takeover on a free one or the stale owner's.
Claimable(k) == lease = None \/ (req[k].stale # None /\ lease = req[k].stale)

\* Mutant: the lease is set without its expiry.
ClaimForever(k, n) ==
  /\ req[k].pc = "choosing"
  /\ n \in req[k].ranked
  /\ app[n].known /\ app[n].count < Capacity
  /\ Claimable(k)
  /\ lease' = n
  /\ req' = [req EXCEPT ![k] = [Idle EXCEPT !.pc = "routed", !.at = n]]
  /\ UNCHANGED <<nodeVars, app, left, missed, faults, settled>>

Claim(k, n) ==
  /\ req[k].pc = "choosing"
  /\ n \in req[k].ranked
  /\ app[n].known /\ app[n].count < Capacity
  /\ Claimable(k)
  /\ lease' = n
  /\ left' = LeaseTTL /\ missed' = 0
  /\ req' = [req EXCEPT ![k] = [Idle EXCEPT !.pc = "routed", !.at = n]]
  /\ UNCHANGED <<nodeVars, app, faults, settled>>

\* Every node was over the room limit, or its claim conflicted or failed: 429
\* room_full.  (As Redis may fail any claim, any node may be passed over.)
RoomFull(k) ==
  /\ req[k].pc = "choosing"
  /\ req' = [req EXCEPT ![k] = Idle]
  /\ UNCHANGED <<nodeVars, app, leaseVars, faults, settled>>

-----------------------------------------------------------------------------
(* The node.                                                               *)

\* A client with a URL from an earlier /join.
StaleURL(k, n) ==
  /\ req[k].pc = "idle"
  /\ req' = [req EXCEPT ![k] = [Idle EXCEPT !.pc = "routed", !.at = n]]
  /\ UNCHANGED <<nodeVars, app, leaseVars, faults, settled>>

\* claimOrGetRoomOwner: the lease is claimed if free, its life is not extended
\* if it is the node's own already.  The flag `shutting' was read when the request
\* came: a node may have begun to drain since.
Admit(k) ==
  LET n == req[k].at IN
  /\ req[k].pc = "routed"
  /\ node[n] # "down"
  /\ lease \in {None, n}
  /\ lease' = n
  /\ IF lease = None
     THEN left' = LeaseTTL /\ missed' = 0
     ELSE UNCHANGED <<left, missed>>
  /\ req' = [req EXCEPT ![k].pc = "admitted"]
  /\ UNCHANGED <<nodeVars, app, faults, settled>>

\* Shutting down, owned by another node, unreachable, or Redis failed.
Refuse(k) ==
  /\ req[k].pc = "routed"
  /\ req' = [req EXCEPT ![k] = Idle]
  /\ UNCHANGED <<nodeVars, app, leaseVars, faults, settled>>

\* The upgrade is done and the client registered and counted.
Connect(k) ==
  LET n == req[k].at IN
  /\ req[k].pc = "admitted"
  /\ members' = [members EXCEPT ![n] = @ \cup {k}]
  /\ req' = [req EXCEPT ![k].pc = "connected"]
  /\ UNCHANGED <<node, beaten, flight, app, leaseVars, faults, settled>>

\* The lease is left alone when the room empties.
Disconnect(k) ==
  LET n == req[k].at IN
  /\ req[k].pc = "connected"
  /\ members' = [members EXCEPT ![n] = @ \ {k}]
  /\ settled' = IF members[n] = {k} THEN settled \ {n} ELSE settled
  /\ req' = [req EXCEPT ![k] = Idle]
  /\ UNCHANGED <<node, beaten, flight, app, leaseVars, faults>>

\* gracefulShutdown: the flag, and a heartbeat of its own.
Drain(n, otherRooms) ==
  /\ node[n] = "up"
  /\ Fault
  /\ node' = [node EXCEPT ![n] = "draining"]
  /\ flight' = [flight EXCEPT ![n] = @ \cup {Snapshot(n, TRUE, otherRooms)}]
  /\ UNCHANGED <<members, beaten, app, leaseVars, req, settled>>

\* The process is gone, its connections with it.
ProcessEnds(n) ==
  /\ members' = [members EXCEPT ![n] = {}]
  /\ req' = [k \in Clients |->
               IF req[k].at = n /\ req[k].pc \in {"admitted", "connected"}
               THEN Idle ELSE req[k]]
  /\ node' = [node EXCEPT ![n] = "down"]
  /\ settled' = settled \ {n}
  /\ UNCHANGED <<beaten, flight, app, leaseVars>>

Stop(n) ==
  /\ node[n] = "draining"
  /\ ProcessEnds(n)
  /\ UNCHANGED faults

Crash(n) ==
  /\ node[n] = "up"
  /\ Fault
  /\ ProcessEnds(n)

\* Its first heartbeat comes a period later.
Start(n) ==
  /\ node[n] = "down"
  /\ node' = [node EXCEPT ![n] = "up"]
  /\ beaten' = beaten \cup {n}
  /\ UNCHANGED <<members, flight, app, leaseVars, req, faults, settled>>

-----------------------------------------------------------------------------
(* The directory process and time.                                         *)

\* Where a request is inside JoinHandler.
Asking == {"asked", "ineligible", "listing", "choosing"}

\* The table of nodes is in memory only; requests being served are cut off.
RestartDirectory ==
  /\ Fault
  /\ app' = [n \in Nodes |-> Unknown]
  /\ flight' = [n \in Nodes |-> {}]
  /\ req' = [k \in Clients |->
               IF req[k].pc \in Asking THEN Idle ELSE req[k]]
  /\ settled' = {}
  /\ UNCHANGED <<node, members, beaten, leaseVars>>

\* A period ends: every node that is up has sent its heartbeat, and what has not
\* arrived by now is lost.  Redis expires the lease.
Tick ==
  /\ \A n \in Nodes :
       /\ node[n] # "draining"
       /\ node[n] = "up" => n \in beaten
       /\ node[n] = "up" /\ app[n].known => app[n].silence < MaxSilence
  /\ beaten' = {}
  /\ flight' = [n \in Nodes |-> {}]
  /\ app' = [n \in Nodes |->
               [app[n] EXCEPT !.silence = IF @ > HealthyTTL THEN @ ELSE @ + 1]]
  /\ left' = IF lease = None THEN 0 ELSE left - 1
  /\ lease' = IF left <= 1 THEN None ELSE lease
  /\ missed' = IF left <= 1 THEN 0 ELSE missed
  /\ UNCHANGED <<node, members, req, faults, settled>>

-----------------------------------------------------------------------------
Heartbeats == \E n \in Nodes :
  \/ \E otherRooms \in BOOLEAN : Beat(n, otherRooms)
  \/ \E hb \in flight[n] :
       HeartbeatHandler(n, hb) \/ RefreshFails(n, hb)
Joins == \E k \in Clients :
  \/ LookUpOwner(k) \/ RouteToOwner(k)
  \/ OwnerIneligible(k) \/ JudgeOwner(k) \/ ListHealthy(k) \/ RoomFull(k)
  \/ \E n \in Nodes : Claim(k, n) \/ StaleURL(k, n)
  \/ Admit(k) \/ Refuse(k) \/ Connect(k) \/ Disconnect(k)
Lives == \E n \in Nodes :
  \/ \E otherRooms \in BOOLEAN : Drain(n, otherRooms)
  \/ Stop(n) \/ Crash(n) \/ Start(n)

Next == Heartbeats \/ Joins \/ Lives \/ MarkStale \/ RestartDirectory \/ Tick

Spec == Init /\ [][Next]_vars

-----------------------------------------------------------------------------
(* Properties.                                                             *)

Beats == [count : 0 .. Cardinality(Clients), carried : BOOLEAN, draining : BOOLEAN]

Records == [known : BOOLEAN, healthy : BOOLEAN, draining : BOOLEAN,
            count : 0 .. Cardinality(Clients), silence : 0 .. HealthyTTL + 1]
Requests == [pc : Asking \cup {"idle", "routed", "admitted", "connected"},
             owner : Nodes \cup {None}, stale : Nodes \cup {None},
             at : Nodes \cup {None}, ranked : SUBSET Nodes]

\* The values the tables hold; the lease has a life left exactly while it exists.
TypeOK ==
  /\ node \in [Nodes -> {"up", "draining", "down"}]
  /\ members \in [Nodes -> SUBSET Clients]
  /\ beaten \in SUBSET Nodes
  /\ flight \in [Nodes -> SUBSET Beats]
  /\ app \in [Nodes -> Records]
  /\ lease \in Nodes \cup {None}
  /\ left \in 0 .. LeaseTTL /\ (left = 0 <=> lease = None)
  /\ missed \in 0 .. MaxMissed
  /\ req \in [Clients -> Requests]
  /\ faults \in 0 .. MaxFaults
  /\ settled \in SUBSET Nodes

\* As long as no node that is up is silent for longer than the TTL (of 10s: with
\* a period of 5s to 6s, as long as no heartbeat is lost), and the refreshes that
\* Redis fails in a row do not outlast the lease, a node keeps the lease
\* for as long as it has clients in the room, from the first heartbeat on that
\* refreshed it with the directory up and no takeover under way; so of the nodes
\* that have got that far, only one has clients.
KeptWhileServed == \A n \in settled : lease = n

\* "A dead node has no live clients, so its lease can be taken over without
\* splitting the room across nodes." (ownerGone): a lease never passes from a
\* node with clients in the room directly to another node.
TakenFromTheDead ==
  [][\A n \in Nodes : lease = n /\ lease' \in Nodes \ {n} => members[n] = {}]_vars
=============================================================================
