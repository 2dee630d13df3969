------------------------ MODULE RoomPlacement_proofs ------------------------
(***************************************************************************)
(* The lease of a room stays with a node that serves it, for any number of *)
(* nodes and clients.  PInv is inductive: one lemma per action, then the   *)
(* theorems.                                                               *)
(***************************************************************************)
EXTENDS RoomPlacement, FiniteSetTheorems, TLAPS

\* What KeptWhileServed asks of the environment.  With heartbeats every 5s, the
\* TTLs of the code (10s and 60s) are 2 and 12 periods: it holds as long as a node
\* is never silent for longer than its TTL and Redis does not fail five refreshes
\* of a lease in a row.
TimelyHeartbeats ==
  /\ MaxSilence <= HealthyTTL
  /\ MaxSilence * (MaxMissed + 1) < LeaseTTL

\* A request asks about an owner it has found; who has been let in is at a node
\* that runs, and a node's clients are those whose connection is at it.
Placed ==
  /\ \A k \in Clients : req[k].pc \in {"asked", "ineligible"} => req[k].owner # None
  /\ \A k \in Clients : req[k].pc = "routed" => req[k].at \in Nodes
  /\ \A k \in Clients : req[k].pc \in {"admitted", "connected"} =>
       req[k].at \in Nodes /\ node[req[k].at] # "down"
  /\ \A n \in Nodes : \A k \in members[n] :
       req[k].pc = "connected" /\ req[k].at = n

\* A settled node owns the lease, is known to the directory and taken for dead by
\* no request; what is left of the lease, what the node has been silent for and
\* what failed refreshes have cost make up the lease's full life.  Only in the
\* period in which it settled can a snapshot be on its way that was taken before
\* its clients came.
Settled ==
  \A n \in settled :
    /\ lease = n
    /\ members[n] # {}
    /\ app[n].known /\ app[n].silence <= MaxSilence
    /\ \A k \in Clients : req[k].stale # n
    /\ left + app[n].silence + MaxSilence * missed >= LeaseTTL
    /\ app[n].silence = 0 \/ \A hb \in flight[n] : hb.count > 0

PInv == TypeOK /\ Placed

-----------------------------------------------------------------------------
\* A snapshot counts the node's clients.
LEMMA SnapshotCounts ==
  ASSUME TypeOK, NEW n \in Nodes, NEW draining \in BOOLEAN, NEW otherRooms \in BOOLEAN
  PROVE  /\ Snapshot(n, draining, otherRooms) \in Beats
         /\ members[n] # {} => Snapshot(n, draining, otherRooms).count > 0
<1>1. members[n] \subseteq Clients
  BY DEF TypeOK
<1>2. IsFiniteSet(members[n]) /\ Cardinality(members[n]) <= Cardinality(Clients)
  BY <1>1, PlacementAssumption, FS_Subset
<1>3. Cardinality(members[n]) \in Nat /\ Cardinality(Clients) \in Nat
  BY <1>2, PlacementAssumption, FS_CardinalityType
<1>4. members[n] # {} => Cardinality(members[n]) # 0
  BY <1>2, FS_EmptySet
<1> QED
  BY <1>2, <1>3, <1>4 DEF Snapshot, Beats

\* MarkStale keeps the records' types.
LEMMA MarkedTyped == ASSUME TypeOK PROVE Marked \in [Nodes -> Records]
  BY DEF TypeOK, Marked, Records

\* The room is empty and without a lease.
LEMMA InitPInv == Init => PInv /\ Settled
<1>1. Cardinality(Clients) \in Nat
  BY PlacementAssumption, FS_CardinalityType
<1> SUFFICES ASSUME Init PROVE PInv /\ Settled
  OBVIOUS
<1> USE PlacementAssumption DEF Init
<1>2. app \in [Nodes -> Records]
  <2>1. [known |-> TRUE, healthy |-> TRUE, draining |-> FALSE,
         count |-> 0, silence |-> 0] \in Records
    BY <1>1 DEF Records
  <2> QED
    BY <2>1 DEF Unknown
<1>3. req \in [Clients -> Requests]
  BY DEF Idle, Requests, Asking
<1>4. TypeOK
  BY <1>2, <1>3 DEF TypeOK
<1>5. Placed /\ Settled
  BY DEF Placed, Settled, Idle
<1> QED
  BY <1>4, <1>5 DEF PInv

\* A snapshot of a node with clients counts them.
LEMMA BeatPInv ==
  ASSUME PInv, NEW n \in Nodes, NEW otherRooms \in BOOLEAN, Beat(n, otherRooms)
  PROVE  PInv' /\ (TimelyHeartbeats /\ Settled => Settled')
<1> USE PlacementAssumption DEF PInv, Beat, nodeVars, leaseVars
<1>0. /\ Snapshot(n, node[n] = "draining", otherRooms) \in Beats
      /\ members[n] # {} => Snapshot(n, node[n] = "draining", otherRooms).count > 0
  BY SnapshotCounts
<1>1. TypeOK'
  <2>1. flight' \in [Nodes -> SUBSET Beats]
    BY <1>0 DEF TypeOK
  <2> QED
    BY <2>1 DEF TypeOK
<1>2. Placed'
  BY DEF Placed, TypeOK, Requests, Asking
<1>3. ASSUME TimelyHeartbeats, Settled PROVE Settled'
  <2> SUFFICES ASSUME NEW m \in settled, settled' = settled
               PROVE  /\ app[m].silence = 0 \/ \A hb \in flight'[m] : hb.count > 0
    BY <1>3 DEF Settled
  <2> QED
    BY <1>0, <1>3 DEF Settled, TypeOK
<1> QED
  BY <1>1, <1>2, <1>3

\* The record's silence ends, and with it the lease gets its full life again; a
\* snapshot that counts nobody is from the period in which n settled.
LEMMA HeartbeatHandlerPInv ==
  ASSUME PInv, NEW n \in Nodes, NEW hb \in flight[n], HeartbeatHandler(n, hb)
  PROVE  PInv' /\ (TimelyHeartbeats /\ Settled => Settled')
<1> USE PlacementAssumption DEF PInv, HeartbeatHandler, Recorded, nodeVars, leaseVars
<1>1. TypeOK'
  <2>1. flight' \in [Nodes -> SUBSET Beats]
    BY DEF TypeOK, Beats
  <2>2. app' \in [Nodes -> Records]
    BY DEF TypeOK, Records, Beats
  <2>3. /\ lease' \in Nodes \cup {None}
       /\ left' \in 0 .. LeaseTTL /\ (left' = 0 <=> lease' = None)
       /\ missed' \in 0 .. MaxMissed
    BY DEF TypeOK
  <2> QED
    BY <2>1, <2>2, <2>3 DEF TypeOK
<1>2. Placed'
  BY DEF Placed, TypeOK, Requests, Asking
<1>3. ASSUME TimelyHeartbeats, Settled PROVE Settled'
  BY <1>3 DEF Settled, Placed, TypeOK
<1> QED
  BY <1>1, <1>2, <1>3

\* The silence ends without a refresh: one of the failures the lease can bear.
LEMMA RefreshFailsPInv ==
  ASSUME PInv, NEW n \in Nodes, NEW hb \in flight[n], RefreshFails(n, hb)
  PROVE  PInv' /\ (TimelyHeartbeats /\ Settled => Settled')
<1> USE PlacementAssumption DEF PInv, RefreshFails, Recorded, Fault, nodeVars, leaseVars
<1>1. TypeOK'
  <2>1. flight' \in [Nodes -> SUBSET Beats]
    BY DEF TypeOK, Beats
  <2>2. app' \in [Nodes -> Records]
    BY DEF TypeOK, Records, Beats
  <2>3. /\ lease' \in Nodes \cup {None}
       /\ left' \in 0 .. LeaseTTL /\ (left' = 0 <=> lease' = None)
       /\ missed' \in 0 .. MaxMissed
    BY DEF TypeOK
  <2> QED
    BY <2>1, <2>2, <2>3 DEF TypeOK
<1>2. Placed'
  BY DEF Placed, TypeOK, Requests, Asking
<1>3. ASSUME TimelyHeartbeats, Settled PROVE Settled'
  BY <1>3 DEF Settled, Placed, TypeOK, Records, Requests
<1> QED
  BY <1>1, <1>2, <1>3

\* Only the health marks change.
LEMMA MarkStalePInv ==
  ASSUME PInv, MarkStale
  PROVE  PInv' /\ (TimelyHeartbeats /\ Settled => Settled')
<1> USE PlacementAssumption DEF PInv, MarkStale, Marked, nodeVars, leaseVars
<1>1. TypeOK'
  BY DEF TypeOK, Records
<1>2. Placed'
  BY DEF Placed, TypeOK, Requests, Asking
<1>3. ASSUME TimelyHeartbeats, Settled PROVE Settled'
  BY <1>3 DEF Settled, Placed, TypeOK
<1> QED
  BY <1>1, <1>2, <1>3

\* Only the health marks and k's request change.
LEMMA LookUpOwnerPInv ==
  ASSUME PInv, NEW k \in Clients, LookUpOwner(k)
  PROVE  PInv' /\ (TimelyHeartbeats /\ Settled => Settled')
<1> USE PlacementAssumption DEF PInv, LookUpOwner, Marked, Idle, nodeVars, leaseVars
<1>1. TypeOK'
  <2>0. PICK owner \in {lease, None} :
          req' = [req EXCEPT ![k] =
                    IF owner = None THEN [Idle EXCEPT !.pc = "listing"]
                    ELSE [Idle EXCEPT !.pc = "asked", !.owner = owner]]
    OBVIOUS
  <2>1. app' \in [Nodes -> Records]
    BY MarkedTyped
  <2>2. req' \in [Clients -> Requests]
    BY <2>0 DEF TypeOK, Requests, Asking
  <2> QED
    BY <2>1, <2>2 DEF TypeOK
<1>2. Placed'
  BY DEF Placed, TypeOK, Requests, Asking
<1>3. ASSUME TimelyHeartbeats, Settled PROVE Settled'
  BY <1>3 DEF Settled, Placed, TypeOK, Records, Requests
<1> QED
  BY <1>1, <1>2, <1>3

\* Only k's request changes.
LEMMA RouteToOwnerPInv ==
  ASSUME PInv, NEW k \in Clients, RouteToOwner(k)
  PROVE  PInv' /\ (TimelyHeartbeats /\ Settled => Settled')
<1> USE PlacementAssumption DEF PInv, RouteToOwner, Idle, nodeVars, leaseVars
<1>1. TypeOK'
  BY DEF TypeOK, Requests, Asking
<1>2. Placed'
  <2>1. req[k].pc = "asked" /\ \A n \in Nodes : k \notin members[n]
    BY DEF Placed, TypeOK
  <2>2. req[k].owner \in Nodes
    <3>1. req[k] \in Requests /\ req[k].owner # None
      BY <2>1 DEF TypeOK, Placed
    <3> QED
      BY <3>1 DEF Requests
  <2> QED
    BY <2>1, <2>2 DEF Placed, TypeOK, Requests, Asking
<1>3. ASSUME TimelyHeartbeats, Settled PROVE Settled'
  BY <1>3 DEF Settled, Placed, TypeOK
<1> QED
  BY <1>1, <1>2, <1>3

\* Only k's request changes.
LEMMA OwnerIneligiblePInv ==
  ASSUME PInv, NEW k \in Clients, OwnerIneligible(k)
  PROVE  PInv' /\ (TimelyHeartbeats /\ Settled => Settled')
<1> USE PlacementAssumption DEF PInv, OwnerIneligible, nodeVars, leaseVars
<1>1. TypeOK'
  BY DEF TypeOK, Requests, Asking
<1>2. Placed'
  BY DEF Placed, TypeOK, Requests, Asking
<1>3. ASSUME TimelyHeartbeats, Settled PROVE Settled'
  BY <1>3 DEF Settled, Placed, TypeOK, Requests
<1> QED
  BY <1>1, <1>2, <1>3

\* A settled node is known and not silent for too long, so it is not taken for gone.
LEMMA JudgeOwnerPInv ==
  ASSUME PInv, NEW k \in Clients, JudgeOwner(k)
  PROVE  PInv' /\ (TimelyHeartbeats /\ Settled => Settled')
<1> USE PlacementAssumption DEF PInv, JudgeOwner, Idle, Gone, nodeVars, leaseVars
<1>1. TypeOK'
  BY DEF TypeOK, Requests, Asking
<1>2. Placed'
  BY DEF Placed, TypeOK, Requests, Asking
<1>3. ASSUME TimelyHeartbeats, Settled PROVE Settled'
  BY <1>3 DEF Settled, Placed, TypeOK, TimelyHeartbeats, Records, Requests
<1> QED
  BY <1>1, <1>2, <1>3

\* Only k's request changes, and nobody is taken for gone.
LEMMA ListHealthyPInv ==
  ASSUME PInv, NEW k \in Clients, ListHealthy(k)
  PROVE  PInv' /\ (TimelyHeartbeats /\ Settled => Settled')
<1> USE PlacementAssumption DEF PInv, ListHealthy, Idle, Candidates, nodeVars, leaseVars
<1>1. TypeOK'
  <2>1. req[k] \in Requests /\ Idle \in Requests
    BY DEF TypeOK, Requests, Asking
  <2>2. [req[k] EXCEPT !.pc = "choosing", !.ranked = Candidates] \in Requests
    BY <2>1 DEF Requests, Asking
  <2> QED
    BY <2>1, <2>2 DEF TypeOK
<1>2. Placed'
  BY DEF Placed, TypeOK, Requests, Asking
<1>3. ASSUME TimelyHeartbeats, Settled PROVE Settled'
  BY <1>3 DEF Settled, Placed, TypeOK, Requests
<1> QED
  BY <1>1, <1>2, <1>3

\* The lease of a settled node is neither free nor held as stale by any request.
LEMMA ClaimPInv ==
  ASSUME PInv, NEW k \in Clients, NEW n \in Nodes, Claim(k, n)
  PROVE  PInv' /\ (TimelyHeartbeats /\ Settled => Settled')
<1> USE PlacementAssumption DEF PInv, Claim, Claimable, Idle, nodeVars, leaseVars
<1>1. TypeOK'
  <2>1. req' \in [Clients -> Requests]
    BY DEF TypeOK, Requests, Asking
  <2>2. /\ lease' \in Nodes \cup {None}
       /\ left' \in 0 .. LeaseTTL /\ (left' = 0 <=> lease' = None)
       /\ missed' \in 0 .. MaxMissed
    BY DEF TypeOK
  <2> QED
    BY <2>1, <2>2 DEF TypeOK
<1>2. Placed'
  BY DEF Placed, TypeOK, Requests, Asking
<1>3. ASSUME TimelyHeartbeats, Settled PROVE Settled'
  BY <1>3 DEF Settled, Placed, TypeOK
<1> QED
  BY <1>1, <1>2, <1>3

\* Only k's request changes.
LEMMA RoomFullPInv ==
  ASSUME PInv, NEW k \in Clients, RoomFull(k)
  PROVE  PInv' /\ (TimelyHeartbeats /\ Settled => Settled')
<1> USE PlacementAssumption DEF PInv, RoomFull, Idle, nodeVars, leaseVars
<1>1. TypeOK'
  BY DEF TypeOK, Requests, Asking
<1>2. Placed'
  BY DEF Placed, TypeOK, Requests, Asking
<1>3. ASSUME TimelyHeartbeats, Settled PROVE Settled'
  BY <1>3 DEF Settled, Placed, TypeOK
<1> QED
  BY <1>1, <1>2, <1>3

\* Only k's request changes.
LEMMA StaleURLPInv ==
  ASSUME PInv, NEW k \in Clients, NEW n \in Nodes, StaleURL(k, n)
  PROVE  PInv' /\ (TimelyHeartbeats /\ Settled => Settled')
<1> USE PlacementAssumption DEF PInv, StaleURL, Idle, nodeVars, leaseVars
<1>1. TypeOK'
  BY DEF TypeOK, Requests, Asking
<1>2. Placed'
  BY DEF Placed, TypeOK, Requests, Asking
<1>3. ASSUME TimelyHeartbeats, Settled PROVE Settled'
  BY <1>3 DEF Settled, Placed, TypeOK
<1> QED
  BY <1>1, <1>2, <1>3

\* A node claims a free lease only.
LEMMA AdmitPInv ==
  ASSUME PInv, NEW k \in Clients, Admit(k)
  PROVE  PInv' /\ (TimelyHeartbeats /\ Settled => Settled')
<1> USE PlacementAssumption DEF PInv, Admit, nodeVars, leaseVars
<1>1. TypeOK'
  <2>1. req' \in [Clients -> Requests]
    <3>1. req \in [Clients -> Requests]
      BY DEF TypeOK
    <3>2. [req[k] EXCEPT !.pc = "admitted"] \in Requests
      BY <3>1 DEF Requests, Asking
    <3>3. req' = [req EXCEPT ![k] = [req[k] EXCEPT !.pc = "admitted"]]
      OBVIOUS
    <3> QED
      BY <3>1, <3>2, <3>3
  <2>2. /\ lease' \in Nodes \cup {None}
       /\ left' \in 0 .. LeaseTTL /\ (left' = 0 <=> lease' = None)
       /\ missed' \in 0 .. MaxMissed
    BY DEF TypeOK, Placed
  <2> QED
    BY <2>1, <2>2 DEF TypeOK
<1>2. Placed'
  BY DEF Placed, TypeOK, Requests, Asking
<1>3. ASSUME TimelyHeartbeats, Settled PROVE Settled'
  BY <1>3 DEF Settled, Placed, TypeOK
<1> QED
  BY <1>1, <1>2, <1>3

\* Only k's request changes.
LEMMA RefusePInv ==
  ASSUME PInv, NEW k \in Clients, Refuse(k)
  PROVE  PInv' /\ (TimelyHeartbeats /\ Settled => Settled')
<1> USE PlacementAssumption DEF PInv, Refuse, Idle, nodeVars, leaseVars
<1>1. TypeOK'
  BY DEF TypeOK, Requests, Asking
<1>2. Placed'
  BY DEF Placed, TypeOK, Requests, Asking
<1>3. ASSUME TimelyHeartbeats, Settled PROVE Settled'
  BY <1>3 DEF Settled, Placed, TypeOK
<1> QED
  BY <1>1, <1>2, <1>3

\* A client more.
LEMMA ConnectPInv ==
  ASSUME PInv, NEW k \in Clients, Connect(k)
  PROVE  PInv' /\ (TimelyHeartbeats /\ Settled => Settled')
<1> USE PlacementAssumption DEF PInv, Connect, nodeVars, leaseVars
<1>1. TypeOK'
  <2>1. req' \in [Clients -> Requests]
    <3>1. req \in [Clients -> Requests]
      BY DEF TypeOK
    <3>2. [req[k] EXCEPT !.pc = "connected"] \in Requests
      BY <3>1 DEF Requests, Asking
    <3>3. req' = [req EXCEPT ![k] = [req[k] EXCEPT !.pc = "connected"]]
      OBVIOUS
    <3> QED
      BY <3>1, <3>2, <3>3
  <2>2. members' \in [Nodes -> SUBSET Clients]
    BY DEF TypeOK
  <2> QED
    BY <2>1, <2>2 DEF TypeOK
<1>2. Placed'
  BY DEF Placed, TypeOK, Requests, Asking
<1>3. ASSUME TimelyHeartbeats, Settled PROVE Settled'
  BY <1>3 DEF Settled, Placed, TypeOK
<1> QED
  BY <1>1, <1>2, <1>3

\* A node that loses its last client is not settled any more.
LEMMA DisconnectPInv ==
  ASSUME PInv, NEW k \in Clients, Disconnect(k)
  PROVE  PInv' /\ (TimelyHeartbeats /\ Settled => Settled')
<1> USE PlacementAssumption DEF PInv, Disconnect, Idle, nodeVars, leaseVars
<1>1. TypeOK'
  BY DEF TypeOK, Requests, Asking
<1>2. Placed'
  BY DEF Placed, TypeOK, Requests, Asking
<1>3. ASSUME TimelyHeartbeats, Settled PROVE Settled'
  BY <1>3 DEF Settled, Placed, TypeOK
<1> QED
  BY <1>1, <1>2, <1>3

\* The extra heartbeat counts the node's clients too.
LEMMA DrainPInv ==
  ASSUME PInv, NEW n \in Nodes, NEW otherRooms \in BOOLEAN, Drain(n, otherRooms)
  PROVE  PInv' /\ (TimelyHeartbeats /\ Settled => Settled')
<1> USE PlacementAssumption DEF PInv, Drain, Fault, nodeVars, leaseVars
<1>0. /\ Snapshot(n, TRUE, otherRooms) \in Beats
      /\ members[n] # {} => Snapshot(n, TRUE, otherRooms).count > 0
  BY SnapshotCounts
<1>1. TypeOK'
  <2>1. flight' \in [Nodes -> SUBSET Beats]
    BY <1>0 DEF TypeOK
  <2>2. node' \in [Nodes -> {"up", "draining", "down"}]
    BY DEF TypeOK
  <2>3. faults' \in 0 .. MaxFaults
    BY DEF TypeOK
  <2> QED
    BY <2>1, <2>2, <2>3 DEF TypeOK
<1>2. Placed'
  BY DEF Placed, TypeOK, Requests, Asking
<1>3. ASSUME TimelyHeartbeats, Settled PROVE Settled'
  <2> SUFFICES ASSUME NEW m \in settled, settled' = settled
               PROVE  app[m].silence = 0 \/ \A hb \in flight'[m] : hb.count > 0
    BY <1>3 DEF Settled
  <2> QED
    BY <1>0, <1>3 DEF Settled, TypeOK
<1> QED
  BY <1>1, <1>2, <1>3

\* Clients go with their node.
LEMMA ProcessEndsPInv ==
  ASSUME PInv, NEW n \in Nodes, ProcessEnds(n), faults' \in 0 .. MaxFaults
  PROVE  PInv' /\ (TimelyHeartbeats /\ Settled => Settled')
<1> USE PlacementAssumption DEF PInv, ProcessEnds, Idle, nodeVars, leaseVars
<1>1. TypeOK'
  BY DEF TypeOK, Requests, Asking
<1>2. Placed'
  BY DEF Placed, TypeOK, Requests, Asking
<1>3. ASSUME TimelyHeartbeats, Settled PROVE Settled'
  BY <1>3 DEF Settled, Placed, TypeOK
<1> QED
  BY <1>1, <1>2, <1>3

\* A node that starts has no clients.
LEMMA StartPInv ==
  ASSUME PInv, NEW n \in Nodes, Start(n)
  PROVE  PInv' /\ (TimelyHeartbeats /\ Settled => Settled')
<1> USE PlacementAssumption DEF PInv, Start, nodeVars, leaseVars
<1>1. TypeOK'
  BY DEF TypeOK
<1>2. Placed'
  BY DEF Placed, TypeOK, Requests, Asking
<1>3. ASSUME TimelyHeartbeats, Settled PROVE Settled'
  BY <1>3 DEF Settled, Placed, TypeOK
<1> QED
  BY <1>1, <1>2, <1>3

\* No node is settled any more.
LEMMA RestartDirectoryPInv ==
  ASSUME PInv, RestartDirectory
  PROVE  PInv' /\ (TimelyHeartbeats /\ Settled => Settled')
<1> USE PlacementAssumption DEF PInv, RestartDirectory, Fault, Idle, Unknown, Asking, nodeVars, leaseVars
<1>1. TypeOK'
  <2>1. flight' \in [Nodes -> SUBSET Beats]
    BY DEF TypeOK, Beats
  <2>2. app' \in [Nodes -> Records]
    BY FS_CardinalityType DEF TypeOK, Records, Beats
  <2>3. req' \in [Clients -> Requests]
    BY DEF TypeOK, Requests, Asking
  <2>4. faults' \in 0 .. MaxFaults
    BY DEF TypeOK
  <2> QED
    BY <2>1, <2>2, <2>3, <2>4 DEF TypeOK
<1>2. Placed'
  BY DEF Placed, TypeOK, Requests, Asking
<1>3. ASSUME TimelyHeartbeats, Settled PROVE Settled'
  BY <1>3 DEF Settled, Placed, TypeOK
<1> QED
  BY <1>1, <1>2, <1>3

\* A period passes: the lease loses no more than the silence gains.
LEMMA TickPInv ==
  ASSUME PInv, Tick
  PROVE  PInv' /\ (TimelyHeartbeats /\ Settled => Settled')
<1> USE PlacementAssumption DEF PInv, Tick, nodeVars, leaseVars
<1>1. TypeOK'
  <2>1. flight' \in [Nodes -> SUBSET Beats]
    BY DEF TypeOK, Beats
  <2>2. ASSUME NEW n \in Nodes
        PROVE  [app[n] EXCEPT !.silence = IF @ > HealthyTTL THEN @ ELSE @ + 1] \in Records
    <3>1. /\ app[n] \in Records
          /\ app[n].silence \in 0 .. HealthyTTL + 1
      BY DEF TypeOK, Records
    <3>2. (IF app[n].silence > HealthyTTL THEN app[n].silence ELSE app[n].silence + 1)
            \in 0 .. HealthyTTL + 1
      BY <3>1
    <3> QED
      BY <3>1, <3>2 DEF Records
  <2>3. /\ lease' \in Nodes \cup {None}
        /\ left' \in 0 .. LeaseTTL /\ (left' = 0 <=> lease' = None)
        /\ missed' \in 0 .. MaxMissed
    <3>1. /\ left \in Nat /\ left <= LeaseTTL /\ (left = 0 <=> lease = None)
          /\ lease \in Nodes \cup {None} /\ missed \in 0 .. MaxMissed
      BY DEF TypeOK
    <3>2. CASE left <= 1
      <4>1. lease' = None /\ missed' = 0
        BY <3>2
      <4>2. left' = 0
        <5>1. CASE lease = None
          BY <5>1
        <5>2. CASE lease # None
          <6>1. left = 1
            <7>1. left # 0 /\ left \in Nat
              BY <3>1, <5>2
            <7> QED
              BY <7>1, <3>2
          <6>2. left' = left - 1
            BY <5>2
          <6> QED
            BY <6>1, <6>2
        <5> QED
          BY <5>1, <5>2
      <4> QED
        BY <4>1, <4>2
    <3>3. CASE left > 1
      BY <3>1, <3>3
    <3> QED
      BY <3>1, <3>2, <3>3
  <2> QED
    BY <2>1, <2>2, <2>3 DEF TypeOK
<1>2. Placed'
  BY DEF Placed, TypeOK, Requests, Asking
<1>3. ASSUME TimelyHeartbeats, Settled PROVE Settled'
  <2> SUFFICES ASSUME NEW n \in settled
               PROVE  /\ lease' = n /\ members[n] # {}
                      /\ app'[n].known /\ app'[n].silence <= MaxSilence
                      /\ \A k \in Clients : req[k].stale # n
                      /\ left' + app'[n].silence + MaxSilence * missed' >= LeaseTTL
                      /\ flight'[n] = {}
    BY <1>3 DEF Settled
  <2> DEFINE spent == MaxSilence * missed
  <2>1. /\ n \in Nodes /\ lease = n /\ members[n] # {} /\ app[n].known
        /\ \A k \in Clients : req[k].stale # n
        /\ left + app[n].silence + spent >= LeaseTTL
    BY <1>3 DEF Settled, TypeOK
  <2>2. /\ left \in Nat /\ missed \in Nat /\ missed <= MaxMissed
        /\ app[n] \in Records /\ app[n].silence \in Nat
    BY <2>1 DEF TypeOK, Records
  <2>3. app[n].silence < MaxSilence
    BY <2>1 DEF Placed, TypeOK
  <2>4. spent \in Nat /\ spent + MaxSilence < LeaseTTL
    <3>1. MaxSilence * missed <= MaxSilence * MaxMissed
      BY <2>2
    <3>2. MaxSilence * (MaxMissed + 1) = MaxSilence * MaxMissed + MaxSilence
      OBVIOUS
    <3>3. MaxSilence * missed \in Nat /\ MaxSilence * MaxMissed \in Nat
      BY <2>2
    <3> QED
      BY <1>3, <3>1, <3>2, <3>3 DEF TimelyHeartbeats
  <2> HIDE DEF spent
  <2>5. left > 1
    BY <2>1, <2>2, <2>3, <2>4
  <2>6. app'[n] = [app[n] EXCEPT !.silence = @ + 1]
    BY <1>3, <2>1, <2>2, <2>3 DEF TimelyHeartbeats
  <2>7. app'[n].silence = app[n].silence + 1 /\ app'[n].known
    BY <2>1, <2>2, <2>6 DEF Records
  <2>8. lease' = n /\ left' = left - 1 /\ missed' = missed
    BY <2>1, <2>2, <2>5 DEF TypeOK
  <2>9. left' + app'[n].silence + spent >= LeaseTTL
    BY <2>1, <2>2, <2>4, <2>7, <2>8
  <2> QED
    BY <2>1, <2>2, <2>3, <2>7, <2>8, <2>9 DEF spent
<1> QED
  BY <1>1, <1>2, <1>3

-----------------------------------------------------------------------------
\* Every step keeps PInv; with timely heartbeats it keeps Settled too.
LEMMA NextPInv ==
  ASSUME PInv, [Next]_vars
  PROVE  PInv' /\ (TimelyHeartbeats /\ Settled => Settled')
<1>1. CASE Heartbeats
  BY <1>1, BeatPInv, HeartbeatHandlerPInv, RefreshFailsPInv DEF Heartbeats
<1>2. CASE Joins
  BY <1>2, LookUpOwnerPInv, RouteToOwnerPInv, OwnerIneligiblePInv,
     JudgeOwnerPInv, ListHealthyPInv, ClaimPInv,
     RoomFullPInv, StaleURLPInv, AdmitPInv, RefusePInv, ConnectPInv,
     DisconnectPInv DEF Joins
<1>3. CASE Lives
  <2>1. ASSUME NEW n \in Nodes, Stop(n) \/ Crash(n)
        PROVE  PInv' /\ (TimelyHeartbeats /\ Settled => Settled')
    <3>1. ProcessEnds(n) /\ faults' \in 0 .. MaxFaults
      BY <2>1, PlacementAssumption DEF Stop, Crash, Fault, PInv, TypeOK
    <3> QED
      BY <3>1, ProcessEndsPInv
  <2> QED
    BY <1>3, <2>1, DrainPInv, StartPInv DEF Lives
<1>4. CASE MarkStale \/ RestartDirectory \/ Tick
  BY <1>4, MarkStalePInv, RestartDirectoryPInv, TickPInv
<1>5. CASE UNCHANGED vars
  BY <1>5 DEF vars, nodeVars, leaseVars, PInv, TypeOK, Placed, Settled
<1> QED
  BY <1>1, <1>2, <1>3, <1>4, <1>5 DEF Next

\* The directory's tables, the leases and the requests keep their types.
THEOREM TypeCorrect == Spec => []TypeOK
<1>1. PInv /\ [Next]_vars => PInv'
  BY NextPInv
<1>2. PInv => TypeOK
  BY DEF PInv
<1> QED
  BY <1>1, <1>2, InitPInv, PTL DEF Spec

\* HeartbeatHandler's refresh, the grace of a heartbeat TTL before ownerGone and
\* claims that only take a free lease or a dead owner's together keep a served
\* room where it is: no settled node loses its lease, to expiry or to another node.
THEOREM ServedRoomKeepsItsLease == TimelyHeartbeats => (Spec => []KeptWhileServed)
<1> SUFFICES ASSUME TimelyHeartbeats PROVE Spec => []KeptWhileServed
  OBVIOUS
<1> DEFINE IInv == PInv /\ Settled
<1>1. Init => IInv
  BY InitPInv
<1>2. IInv /\ [Next]_vars => IInv'
  BY NextPInv
<1>3. IInv => KeptWhileServed
  BY DEF Settled, KeptWhileServed
<1> QED
  BY <1>1, <1>2, <1>3, PTL DEF Spec
=============================================================================
