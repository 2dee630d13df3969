--------------------------- MODULE Shutdown_proofs ---------------------------
(***************************************************************************)
(* The safety properties of Shutdown hold for any number of connections,   *)
(* any queue length and any number of events.                              *)
(***************************************************************************)
EXTENDS Shutdown, TLAPS

\* A queue keeps a server_shutdown when something is added behind it, and when
\* its head, which is something else, is taken off.
LEMMA ByeStays ==
  ASSUME NEW q \in Seq({"msg", "bye"}), NEW m \in {"msg", "bye"}
  PROVE  /\ Append(q, m) \in Seq({"msg", "bye"})
         /\ HasBye(q) => HasBye(Append(q, m))
         /\ HasBye(Append(q, "bye"))
<1>1. Append(q, m) \in Seq({"msg", "bye"})
  OBVIOUS
<1>2. Len(Append(q, m)) = Len(q) + 1 /\ Len(Append(q, "bye")) = Len(q) + 1
  OBVIOUS
<1>3. \A i \in 1..Len(q) : Append(q, m)[i] = q[i]
  OBVIOUS
<1>4. Append(q, "bye")[Len(q) + 1] = "bye"
  OBVIOUS
<1>5. Len(q) \in Nat
  OBVIOUS
<1>. QED
  BY <1>1, <1>2, <1>3, <1>4, <1>5 DEF HasBye

LEMMA ByeIsNext ==
  ASSUME NEW q \in Seq({"msg", "bye"}), q # <<>>, HasBye(q), Head(q) # "bye"
  PROVE  HasBye(Tail(q))
<1>1. PICK i \in 1..Len(q) : q[i] = "bye"
  BY DEF HasBye
<1>2. i # 1
  BY <1>1
<1>3. i - 1 \in 1..Len(Tail(q)) /\ Tail(q)[i - 1] = "bye"
  BY <1>1, <1>2
<1>. QED
  BY <1>3 DEF HasBye

-----------------------------------------------------------------------------
(* One lemma per action.                                                   *)

LEMMA CheckKeeps ==
  ASSUME SInv, NEW c \in Conns, Check(c)
  PROVE  SInv'
<1>1. (Types /\ LockHeld /\ ClosedBy /\ Broadcast /\ Backlogged /\ FrameFollowsBye /\
      PanicNeedsBacklog)'
  BY DEF SInv, Types, Stages, LockHeld, ClosedBy, Broadcast, Before, Backlogged,
      FrameFollowsBye, PanicNeedsBacklog, Check, Step, endVars, lockVars, pumpVars,
      sendVars, subVars
<1>2. Members'
  BY DEF SInv, Members, Check, Step, endVars, pumpVars
<1>. QED
  BY <1>1, <1>2 DEF SInv

LEMMA LockToJoinKeeps ==
  ASSUME SInv, NEW c \in Conns, LockToJoin(c)
  PROVE  SInv'
<1>1. (Types /\ LockHeld /\ ClosedBy /\ Broadcast /\ Backlogged /\ FrameFollowsBye /\
      PanicNeedsBacklog)'
  BY DEF SInv, Types, Stages, LockHeld, ClosedBy, Broadcast, Told, Backlogged,
      FrameFollowsBye, PanicNeedsBacklog, LockToJoin, Step, Announced, endVars, pumpVars,
      sendVars, subVars
<1>2. Members'
  BY DEF SInv, Members, LockToJoin, Step, endVars, pumpVars, subVars
<1>. QED
  BY <1>1, <1>2 DEF SInv

LEMMA JoinKeeps ==
  ASSUME SInv, NEW c \in Conns, Join(c)
  PROVE  SInv'
<1>1. (Types /\ LockHeld /\ ClosedBy /\ Backlogged /\ FrameFollowsBye /\ PanicNeedsBacklog)'
  BY DEF SInv, Types, Stages, LockHeld, ClosedBy, Backlogged, FrameFollowsBye,
      PanicNeedsBacklog, Join, Step, Written, endVars, pumpVars, sendVars, subVars
<1>2. Members'
  BY DEF SInv, Members, Types, Join, Step, endVars, pumpVars, subVars
<1>3. Broadcast'
  BY DEF SInv, Broadcast, Told, Before, Members, Join, Step, endVars, pumpVars, sendVars
<1>. QED
  BY <1>1, <1>2, <1>3 DEF SInv

LEMMA StartPumpsKeeps ==
  ASSUME SInv, NEW c \in Conns, StartPumps(c)
  PROVE  SInv'
<1>1. (Types /\ LockHeld /\ ClosedBy /\ Backlogged /\ FrameFollowsBye /\ PanicNeedsBacklog)'
  BY DEF SInv, Types, Stages, LockHeld, ClosedBy, Backlogged, FrameFollowsBye,
      PanicNeedsBacklog, StartPumps, Step, endVars, lockVars, sendVars, subVars
<1>2. Members'
  BY DEF SInv, Members, Types, StartPumps, Step, endVars, subVars
<1>3. Broadcast'
  BY DEF SInv, Broadcast, Told, Members, StartPumps, Step, endVars, sendVars
<1>. QED
  BY <1>1, <1>2, <1>3 DEF SInv

LEMMA PeerClosesKeeps ==
  ASSUME SInv, NEW c \in Conns, PeerCloses(c)
  PROVE  SInv'
<1>1. (Types /\ LockHeld /\ Members /\ ClosedBy /\ Broadcast /\ Backlogged /\
      FrameFollowsBye /\ PanicNeedsBacklog)'
  BY DEF SInv, Types, LockHeld, Members, ClosedBy, Broadcast, Told, Backlogged,
      FrameFollowsBye, PanicNeedsBacklog, PeerCloses, endVars, lockVars, connVars, pumpVars,
      sendVars, subVars
<1>. QED
  BY <1>1 DEF SInv

LEMMA LockToLeaveKeeps ==
  ASSUME SInv, NEW c \in Conns, LockToLeave(c)
  PROVE  SInv'
<1>1. (Types /\ LockHeld /\ ClosedBy /\ Broadcast /\ Backlogged /\ FrameFollowsBye /\
      PanicNeedsBacklog)'
  BY DEF SInv, Types, Stages, LockHeld, ClosedBy, Broadcast, Told, Backlogged,
      FrameFollowsBye, PanicNeedsBacklog, LockToLeave, Step, Announced, endVars, pumpVars,
      sendVars, subVars
<1>2. Members'
  BY DEF SInv, Members, LockToLeave, Step, endVars, pumpVars, subVars
<1>. QED
  BY <1>1, <1>2 DEF SInv

LEMMA LeaveKeeps ==
  ASSUME SInv, NEW c \in Conns, Leave(c)
  PROVE  SInv'
<1>1. (Types /\ LockHeld /\ ClosedBy /\ Backlogged /\ FrameFollowsBye /\ PanicNeedsBacklog)'
  BY DEF SInv, Types, Stages, LockHeld, ClosedBy, Backlogged, FrameFollowsBye,
      PanicNeedsBacklog, Leave, Step, Written, endVars, pumpVars, sendVars, subVars
<1>2. Members'
  BY DEF SInv, Members, Leave, Step, endVars, pumpVars, subVars
<1>3. Broadcast'
  BY DEF SInv, Broadcast, Told, Leave, endVars, pumpVars, sendVars
<1>. QED
  BY <1>1, <1>2, <1>3 DEF SInv

LEMMA CleanUpKeeps ==
  ASSUME SInv, NEW c \in Conns, CleanUp(c)
  PROVE  SInv'
<1>1. (Types /\ LockHeld /\ Members /\ Broadcast /\ FrameFollowsBye /\ PanicNeedsBacklog)'
  BY DEF SInv, Types, Stages, LockHeld, Members, Broadcast, Told, FrameFollowsBye,
      PanicNeedsBacklog, CleanUp, Step, endVars, lockVars, pumpVars, subVars
<1>2. ClosedBy'
  BY DEF SInv, ClosedBy, Types, CleanUp, Step, endVars
<1>3. Backlogged'
  BY DEF SInv, Backlogged, Types, CleanUp, Step, endVars, subVars
<1>. QED
  BY <1>1, <1>2, <1>3 DEF SInv

LEMMA WriteKeeps ==
  ASSUME SInv, NEW c \in Conns, Write(c)
  PROVE  SInv'
<1>1. (Types /\ LockHeld /\ Members /\ ClosedBy /\ Backlogged /\ FrameFollowsBye /\
      PanicNeedsBacklog)'
  BY DEF SInv, Types, LockHeld, Members, ClosedBy, Backlogged, FrameFollowsBye,
      PanicNeedsBacklog, Write, endVars, lockVars, connVars, subVars
<1>2. Broadcast'
  <2>1. /\ framed' \subseteq {d \in Conns : pump'[d] = "done"}
        /\ \A d \in rooms' : d \in framed' /\ phase' \in Before => d \in full'
    BY DEF SInv, Broadcast, Write, endVars, connVars
  <2>2. ASSUME ~crashed', phase' \notin Before, NEW d \in rooms' \cup toClose'
        PROVE  Told(d)' \/ (d \notin framed' /\ (pump'[d] # "done" => HasBye(send'[d])))
    <3>1. Told(d) \/ (d \notin framed /\ (pump[d] # "done" => HasBye(send[d])))
      BY <2>2 DEF SInv, Broadcast, Write, endVars, connVars
    <3>2. Told(d) => Told(d)'
      BY DEF Told, Write, connVars
    <3>3. CASE d # c
      <4>1. send'[d] = send[d]
        BY <3>3, <2>2 DEF SInv, Types, Write, endVars, connVars
      <4>. QED
        BY <3>1, <3>2, <4>1 DEF Write
    <3>4. CASE d = c
      <4>1. send[c] \in Seq({"msg", "bye"}) /\ send[c] # <<>> /\ send'[c] = Tail(send[c])
        BY DEF SInv, Types, Write
      <4>2. Head(send[c]) = "bye" => Told(c)'
        BY DEF Write, Told
      <4>3. Head(send[c]) # "bye" /\ HasBye(send[c]) => HasBye(send'[c])
        BY <4>1, ByeIsNext
      <4>. QED
        BY <3>1, <3>2, <3>4, <4>2, <4>3 DEF Write, Pumping
    <3>. QED
      BY <3>3, <3>4
  <2>. QED
    BY <2>1, <2>2 DEF Broadcast
<1>. QED
  BY <1>1, <1>2 DEF SInv

LEMMA WriteFailsKeeps ==
  ASSUME SInv, NEW c \in Conns, WriteFails(c)
  PROVE  SInv'
<1>1. (Types /\ LockHeld /\ ClosedBy /\ Backlogged /\ FrameFollowsBye /\ PanicNeedsBacklog)'
  BY DEF SInv, Types, LockHeld, ClosedBy, Backlogged, FrameFollowsBye, PanicNeedsBacklog,
      WriteFails, endVars, lockVars, connVars, sendVars, subVars
<1>2. Members'
  BY DEF SInv, Members, WriteFails, Pumping, endVars, connVars, subVars
<1>3. Broadcast'
  BY DEF SInv, Broadcast, Told, WriteFails, endVars, connVars, sendVars
<1>. QED
  BY <1>1, <1>2, <1>3 DEF SInv

LEMMA WriteCloseKeeps ==
  ASSUME SInv, NEW c \in Conns, WriteClose(c)
  PROVE  SInv'
<1>1. (Types /\ LockHeld /\ ClosedBy /\ Backlogged /\ PanicNeedsBacklog)'
  BY DEF SInv, Types, LockHeld, ClosedBy, Backlogged, PanicNeedsBacklog, WriteClose,
      endVars, lockVars, connVars, sendVars, subVars
<1>2. Members'
  BY DEF SInv, Members, WriteClose, Pumping, endVars, connVars, subVars
<1>3. Broadcast'
  <2>1. /\ framed' \subseteq {d \in Conns : pump'[d] = "done"}
        /\ \A d \in rooms' : d \in framed' /\ phase' \in Before => d \in full'
    BY DEF SInv, Broadcast, Types, Members, ClosedBy, Before, WriteClose, endVars, connVars,
        sendVars
  <2>2. ASSUME ~crashed', phase' \notin Before, NEW d \in rooms' \cup toClose'
        PROVE  Told(d)' \/ (d \notin framed' /\ (pump'[d] # "done" => HasBye(send'[d])))
    <3>1. Told(d) \/ (d \notin framed /\ (pump[d] # "done" => HasBye(send[d])))
      BY <2>2 DEF SInv, Broadcast, WriteClose, endVars, connVars, sendVars
    <3>2. ~HasBye(<<>>)
      BY DEF HasBye
    <3>. QED
      BY <2>2, <3>1, <3>2 DEF SInv, Types, Told, WriteClose, Pumping, endVars, connVars, sendVars
  <2>. QED
    BY <2>1, <2>2 DEF Broadcast
<1>4. FrameFollowsBye'
  <2>1. CASE crashed'
    BY <2>1 DEF WriteClose, Pumping, Alive, sendVars
  <2>2. CASE ~crashed'
    BY <1>3, <2>2 DEF SInv, FrameFollowsBye, Broadcast, Told, Before, Members, WriteClose, endVars
  <2>. QED
    BY <2>1, <2>2
<1>. QED
  BY <1>1, <1>2, <1>3, <1>4 DEF SInv

LEMMA PublishKeeps ==
  ASSUME SInv, Publish
  PROVE  SInv'
<1>1. (Types /\ LockHeld /\ Members /\ ClosedBy /\ Broadcast /\ FrameFollowsBye /\
      PanicNeedsBacklog)'
  BY DEF SInv, Types, LockHeld, Members, ClosedBy, Broadcast, Told, FrameFollowsBye,
      PanicNeedsBacklog, Publish, endVars, lockVars, connVars, pumpVars, sendVars
<1>2. Backlogged'
  BY DEF SInv, Backlogged, Members, Publish, endVars
<1>. QED
  BY <1>1, <1>2 DEF SInv

LEMMA ReceiveKeeps ==
  ASSUME SInv, Receive
  PROVE  SInv'
<1>1. (Types /\ Members /\ ClosedBy /\ Broadcast /\ FrameFollowsBye /\ PanicNeedsBacklog)'
  BY DEF SInv, Types, Members, ClosedBy, Broadcast, Told, FrameFollowsBye,
      PanicNeedsBacklog, Receive, endVars, connVars, pumpVars, sendVars
<1>2. LockHeld'
  BY DEF SInv, LockHeld, Receive, Acquired, endVars
<1>3. Backlogged'
  BY DEF SInv, Backlogged, Receive, endVars, connVars, sendVars
<1>. QED
  BY <1>1, <1>2, <1>3 DEF SInv

LEMMA FanOutKeeps ==
  ASSUME SInv, FanOut
  PROVE  SInv'
<1>1. (Members /\ FrameFollowsBye)'
  BY DEF SInv, Members, FrameFollowsBye, FanOut, endVars, connVars, pumpVars, Enqueued
<1>2. Types'
  <2>1. send' \in [Conns -> Seq({"msg", "bye"})] /\ closed' \in [Conns -> BOOLEAN] /\ crashed' \in BOOLEAN
    <3>1. CASE Panics
      BY <3>1 DEF SInv, Types, FanOut, Enqueued
    <3>2. CASE ~Panics
      <4>1. \A d \in Conns : Append(send[d], "msg") \in Seq({"msg", "bye"})
        BY ByeStays DEF SInv, Types
      <4>. QED
        BY <3>2, <4>1 DEF SInv, Types, FanOut, Enqueued
    <3>. QED
      BY <3>1, <3>2
  <2>. QED
    BY <2>1 DEF SInv, Types, FanOut, endVars, connVars, pumpVars, subVars
<1>3. LockHeld'
  BY DEF SInv, LockHeld, FanOut, Released, endVars
<1>4. ClosedBy'
  BY DEF SInv, ClosedBy, FanOut, endVars, connVars, Enqueued
<1>5. Broadcast'
  <2>1. /\ framed' \subseteq {d \in Conns : pump'[d] = "done"}
        /\ \A d \in rooms' : d \in framed' /\ phase' \in Before => d \in full'
    BY DEF SInv, Broadcast, FanOut, Enqueued, endVars, connVars, pumpVars
  <2>2. ASSUME ~crashed', phase' \notin Before, NEW d \in rooms' \cup toClose'
        PROVE  Told(d)' \/ (d \notin framed' /\ (pump'[d] # "done" => HasBye(send'[d])))
    <3>1. ~Panics
      BY <2>2 DEF FanOut, Enqueued
    <3>2. Told(d) \/ (d \notin framed /\ (pump[d] # "done" => HasBye(send[d])))
      BY <2>2 DEF SInv, Broadcast, FanOut, Alive, endVars, connVars
    <3>3. Told(d) => Told(d)'
      BY <3>1 DEF Told, FanOut, Enqueued, connVars, pumpVars
    <3>4. HasBye(send[d]) => HasBye(send'[d])
      <4>1. d \in Conns /\ send[d] \in Seq({"msg", "bye"})
        BY <2>2 DEF SInv, Types, FanOut, endVars, connVars
      <4>2. send'[d] = send[d] \/ send'[d] = Append(send[d], "msg")
        BY <3>1, <4>1 DEF FanOut, Enqueued
      <4>. QED
        BY <4>1, <4>2, ByeStays
    <3>. QED
      BY <3>2, <3>3, <3>4 DEF FanOut, pumpVars
  <2>. QED
    BY <2>1, <2>2 DEF Broadcast
<1>6. Backlogged'
  BY DEF SInv, Backlogged, Types, FanOut, endVars, connVars, Enqueued
<1>7. PanicNeedsBacklog'
  BY DEF SInv, PanicNeedsBacklog, Backlogged, ClosedBy, Types, Members, FanOut, endVars,
      Enqueued, Panics
<1>. QED
  BY <1>1, <1>2, <1>3, <1>4, <1>5, <1>6, <1>7 DEF SInv

LEMMA SubscriberEndsKeeps ==
  ASSUME SInv, SubscriberEnds
  PROVE  SInv'
<1>1. (Types /\ Members /\ ClosedBy /\ Broadcast /\ Backlogged /\ FrameFollowsBye /\
      PanicNeedsBacklog)'
  BY DEF SInv, Types, Members, ClosedBy, Broadcast, Told, Backlogged, FrameFollowsBye,
      PanicNeedsBacklog, SubscriberEnds, endVars, connVars, pumpVars, sendVars
<1>2. LockHeld'
  BY DEF SInv, LockHeld, SubscriberEnds, endVars, lockVars
<1>. QED
  BY <1>1, <1>2 DEF SInv

LEMMA SignalKeeps ==
  ASSUME SInv, Signal
  PROVE  SInv'
<1>1. (Types /\ ClosedBy /\ Broadcast /\ Backlogged /\ FrameFollowsBye /\
      PanicNeedsBacklog)'
  BY DEF SInv, Types, Phases, ClosedBy, Broadcast, Before, Backlogged, FrameFollowsBye,
      PanicNeedsBacklog, Signal, At, connVars, pumpVars, sendVars, subVars
<1>2. LockHeld'
  BY DEF SInv, LockHeld, Signal, At, lockVars, subVars
<1>3. Members'
  BY DEF SInv, Members, Signal, At, connVars, pumpVars
<1>. QED
  BY <1>1, <1>2, <1>3 DEF SInv

LEMMA LockToTellKeeps ==
  ASSUME SInv, LockToTell
  PROVE  SInv'
<1>1. (Types /\ Members /\ ClosedBy /\ Broadcast /\ Backlogged /\ FrameFollowsBye /\
      PanicNeedsBacklog)'
  BY DEF SInv, Types, Phases, Members, ClosedBy, Broadcast, Before, Backlogged,
      FrameFollowsBye, PanicNeedsBacklog, LockToTell, At, connVars, pumpVars, sendVars,
      subVars
<1>2. LockHeld'
  BY DEF SInv, LockHeld, LockToTell, At, Acquired, subVars
<1>. QED
  BY <1>1, <1>2 DEF SInv

LEMMA NobodyToTellKeeps ==
  ASSUME SInv, NobodyToTell
  PROVE  SInv'
<1>1. (Types /\ Members /\ ClosedBy /\ Backlogged /\ FrameFollowsBye /\ PanicNeedsBacklog)'
  BY DEF SInv, Types, Phases, Members, ClosedBy, Backlogged, FrameFollowsBye,
      PanicNeedsBacklog, NobodyToTell, At, connVars, pumpVars, sendVars, subVars
<1>2. LockHeld'
  BY DEF SInv, LockHeld, NobodyToTell, At, Released, subVars
<1>3. Broadcast'
  BY DEF SInv, Broadcast, Members, NobodyToTell, At, connVars, pumpVars
<1>. QED
  BY <1>1, <1>2, <1>3 DEF SInv

LEMMA LockAgainKeeps ==
  ASSUME SInv, LockAgain
  PROVE  SInv'
<1>1. (Types /\ Members /\ ClosedBy /\ Broadcast /\ Backlogged /\ FrameFollowsBye /\
      PanicNeedsBacklog)'
  BY DEF SInv, Types, Phases, Members, ClosedBy, Broadcast, Before, Backlogged,
      FrameFollowsBye, PanicNeedsBacklog, LockAgain, At, connVars, pumpVars, sendVars,
      subVars
<1>2. LockHeld'
  BY DEF SInv, LockHeld, LockAgain, At, Acquired, subVars
<1>. QED
  BY <1>1, <1>2 DEF SInv

LEMMA TellKeeps ==
  ASSUME SInv, Tell
  PROVE  SInv'
<1>1. (Members /\ Backlogged /\ FrameFollowsBye)'
  BY DEF SInv, Members, Backlogged, FrameFollowsBye, Tell, At, connVars, pumpVars
<1>2. Types'
  <2>1. send' \in [Conns -> Seq({"msg", "bye"})] /\ closed' \in [Conns -> BOOLEAN] /\ crashed' \in BOOLEAN
    <3>1. CASE Panics
      BY <3>1 DEF SInv, Types, Tell, Enqueued
    <3>2. CASE ~Panics
      <4>1. \A d \in Conns : Append(send[d], "bye") \in Seq({"msg", "bye"})
        BY ByeStays DEF SInv, Types
      <4>. QED
        BY <3>2, <4>1 DEF SInv, Types, Tell, Enqueued
    <3>. QED
      BY <3>1, <3>2
  <2>. QED
    BY <2>1 DEF SInv, Types, Tell, At, Phases, endVars, connVars, pumpVars, subVars
<1>3. LockHeld'
  BY DEF SInv, LockHeld, Tell, Released, subVars
<1>4. ClosedBy'
  BY DEF SInv, ClosedBy, Tell, connVars, Enqueued
<1>5. Broadcast'
  BY DEF SInv, Broadcast, Told, Before, HasBye, Types, Members, Tell, At, connVars,
      pumpVars, Enqueued
<1>6. PanicNeedsBacklog'
  BY DEF SInv, PanicNeedsBacklog, ClosedBy, Types, Members, Tell, At, Enqueued, Panics
<1>. QED
  BY <1>1, <1>2, <1>3, <1>4, <1>5, <1>6 DEF SInv

LEMMA CloseRoomSubsKeeps ==
  ASSUME SInv, CloseRoomSubs
  PROVE  SInv'
<1>1. (Types /\ LockHeld /\ ClosedBy /\ FrameFollowsBye /\ PanicNeedsBacklog)'
  BY DEF SInv, Types, Phases, LockHeld, ClosedBy, FrameFollowsBye, PanicNeedsBacklog,
      CloseRoomSubs, At, lockVars, connVars, pumpVars, sendVars
<1>2. Members'
  BY DEF SInv, Members, CloseRoomSubs, At, connVars, pumpVars
<1>3. Broadcast'
  BY DEF SInv, Broadcast, Told, Before, CloseRoomSubs, At, connVars, pumpVars, sendVars
<1>4. Backlogged'
  BY DEF SInv, Backlogged, Members, CloseRoomSubs, At
<1>. QED
  BY <1>1, <1>2, <1>3, <1>4 DEF SInv

LEMMA ListKeeps ==
  ASSUME SInv, List
  PROVE  SInv'
<1>1. (Types /\ LockHeld /\ PanicNeedsBacklog)'
  BY DEF SInv, Types, Phases, LockHeld, PanicNeedsBacklog, List, At, lockVars, connVars,
      pumpVars, sendVars, subVars
<1>2. Members'
  BY DEF SInv, Members, List, At, connVars, pumpVars, subVars
<1>3. ClosedBy'
  BY DEF SInv, ClosedBy, Members, List, At, connVars, sendVars
<1>4. Broadcast'
  BY DEF SInv, Broadcast, Told, Before, List, At, connVars, pumpVars, sendVars
<1>5. Backlogged'
  BY DEF SInv, Backlogged, Types, Members, ClosedBy, List, At, sendVars
<1>6. FrameFollowsBye'
  BY DEF SInv, FrameFollowsBye, Broadcast, Told, List, At, connVars, pumpVars, sendVars,
      Alive
<1>. QED
  BY <1>1, <1>2, <1>3, <1>4, <1>5, <1>6 DEF SInv

LEMMA CloseSendKeeps ==
  ASSUME SInv, NEW c \in Conns, CloseSend(c)
  PROVE  SInv'
<1>1. (Types /\ LockHeld /\ Members /\ Broadcast /\ FrameFollowsBye /\ PanicNeedsBacklog)'
  BY DEF SInv, Types, LockHeld, Members, Broadcast, Told, FrameFollowsBye,
      PanicNeedsBacklog, CloseSend, lockVars, connVars, pumpVars, subVars
<1>2. ClosedBy'
  BY DEF SInv, ClosedBy, CloseSend, connVars
<1>3. Backlogged'
  BY DEF SInv, Backlogged, CloseSend, subVars
<1>. QED
  BY <1>1, <1>2, <1>3 DEF SInv

LEMMA AllDoneKeeps ==
  ASSUME SInv, AllDone
  PROVE  SInv'
<1>1. (Types /\ LockHeld /\ ClosedBy /\ Broadcast /\ Backlogged /\ FrameFollowsBye /\
      PanicNeedsBacklog)'
  BY DEF SInv, Types, Phases, LockHeld, ClosedBy, Broadcast, Told, Before, Backlogged,
      FrameFollowsBye, PanicNeedsBacklog, AllDone, At, lockVars, connVars, pumpVars,
      sendVars, subVars
<1>2. Members'
  BY DEF SInv, Members, AllDone, At, connVars, pumpVars, subVars
<1>. QED
  BY <1>1, <1>2 DEF SInv

LEMMA GraceOverKeeps ==
  ASSUME SInv, GraceOver
  PROVE  SInv'
<1>1. (Types /\ LockHeld /\ ClosedBy /\ Broadcast /\ Backlogged /\ FrameFollowsBye /\
      PanicNeedsBacklog)'
  BY DEF SInv, Types, Phases, LockHeld, ClosedBy, Broadcast, Told, Before, Backlogged,
      FrameFollowsBye, PanicNeedsBacklog, GraceOver, At, lockVars, connVars, pumpVars,
      sendVars, subVars
<1>2. Members'
  BY DEF SInv, Members, GraceOver, At, connVars, pumpVars, subVars
<1>. QED
  BY <1>1, <1>2 DEF SInv

-----------------------------------------------------------------------------
(* The theorems.                                                           *)

LEMMA SInvHoldsFirst == Init => SInv
<1>. SUFFICES ASSUME Init PROVE SInv
  OBVIOUS
<1>1. Types
  <2>1. <<>> \in Seq({"msg", "bye"})
    OBVIOUS
  <2>. QED
    BY <2>1 DEF Init, Types, Phases, Stages
<1>2. LockHeld /\ Members /\ ClosedBy /\ Backlogged /\ FrameFollowsBye /\ PanicNeedsBacklog
  BY DEF Init, LockHeld, Members, ClosedBy, Backlogged, FrameFollowsBye, PanicNeedsBacklog
<1>3. Broadcast
  BY DEF Init, Broadcast
<1>. QED
  BY <1>1, <1>2, <1>3 DEF SInv

LEMMA SInvStays == SInv /\ [Next]_vars => SInv'
<1>. SUFFICES ASSUME SInv, [Next]_vars PROVE SInv'
  OBVIOUS
<1>1. CASE UNCHANGED vars
  BY <1>1 DEF vars, SInv, Types, LockHeld, Members, ClosedBy, Broadcast, Told, Backlogged,
      FrameFollowsBye, PanicNeedsBacklog, Before, endVars, lockVars, connVars, pumpVars,
      sendVars, subVars
<1>2. CASE Signal \/ ShutdownStep
  BY <1>2, SignalKeeps, LockToTellKeeps, NobodyToTellKeeps, LockAgainKeeps, TellKeeps,
     CloseRoomSubsKeeps, ListKeeps, AllDoneKeeps, GraceOverKeeps, CloseSendKeeps
     DEF ShutdownStep
<1>3. CASE Publish \/ SubscriberStep
  BY <1>3, PublishKeeps, ReceiveKeeps, FanOutKeeps, SubscriberEndsKeeps DEF SubscriberStep
<1>4. ASSUME NEW c \in Conns, Check(c) \/ PeerCloses(c) \/ HandlerStep(c) \/ PumpStep(c)
      PROVE  SInv'
  BY <1>4, CheckKeeps, PeerClosesKeeps, LockToJoinKeeps, JoinKeeps, StartPumpsKeeps,
     LockToLeaveKeeps, LeaveKeeps, CleanUpKeeps, WriteKeeps, WriteFailsKeeps, WriteCloseKeeps
     DEF HandlerStep, PumpStep
<1>. QED
  BY <1>1, <1>2, <1>3, <1>4 DEF Next

\* SInv holds in every reachable state.
THEOREM ShutdownInvariant == Spec => []SInv
  BY SInvHoldsFirst, SInvStays, PTL DEF Spec

\* Whom gracefulShutdown closes with a frame it has told before, with the
\* exceptions that FrameFollowsBye names.
THEOREM ToldBeforeClosed == Spec => []FrameFollowsBye
<1>1. SInv => FrameFollowsBye
  BY DEF SInv
<1>. QED
  BY <1>1, ShutdownInvariant, PTL

\* A panic of enqueueToRoom needs a full queue, or events left at the shutdown.
THEOREM PanicsAreBacklogged == Spec => []PanicNeedsBacklog
<1>1. SInv => PanicNeedsBacklog
  BY DEF SInv
<1>. QED
  BY <1>1, ShutdownInvariant, PTL

\* Nothing but the shutdown's second read lock keeps a reader of roomsLock from
\* giving it back.
THEOREM ReadersLetGo == Spec => []HolderCanLetGo
<1>1. SInv => HolderCanLetGo
  <2>. SUFFICES ASSUME SInv, writer # None, reading # {} PROVE
         \/ worker = "fanning" \/ phase = "enqueuing"
         \/ (phase = "telling" /\ rooms = {}) \/ Deadlocked
    BY DEF HolderCanLetGo
  <2>1. PICK r \in reading : r \in {"tell", "inner", "fan"}
    BY DEF SInv, LockHeld
  <2>. QED
    BY <2>1 DEF SInv, LockHeld, Deadlocked
<1>. QED
  BY <1>1, ShutdownInvariant, PTL

-----------------------------------------------------------------------------
(* What the types need beyond SInv: queues within their channels, and a      *)
(* buffer that holds no more events than were published.                     *)

Bounds ==
  /\ writer \in Conns \cup {None}
  /\ told \subseteq Conns /\ late \subseteq Conns /\ full \subseteq Conns
  /\ sock \in [Conns -> {"open", "closed"}]
  /\ \A c \in Conns : Len(send[c]) <= Cap
  /\ inbox \in Nat /\ events \in Nat
  /\ inbox <= events /\ events <= MaxEvents

\* enqueueToRoom adds to a queue with room only.
LEMMA QueuesStayBounded ==
  ASSUME SInv, Bounds, NEW m \in {"msg", "bye"}, Enqueued(m)
  PROVE  full' \subseteq Conns /\ \A c \in Conns : Len(send'[c]) <= Cap
<1>1. CASE Panics
  BY <1>1 DEF Bounds, Enqueued
<1>2. CASE ~Panics
  <2>1. full' \subseteq Conns
    BY <1>2 DEF SInv, Types, Bounds, Enqueued
  <2>2. ASSUME NEW c \in Conns PROVE Len(send'[c]) <= Cap
    <3>1. send[c] \in Seq({"msg", "bye"}) /\ Len(send[c]) <= Cap
      BY DEF SInv, Types, Bounds
    <3>2. send'[c] = send[c] \/ (Len(send[c]) < Cap /\ send'[c] = Append(send[c], m))
      BY <1>2 DEF Enqueued, Room
    <3>3. Len(Append(send[c], m)) = Len(send[c]) + 1 /\ Len(send[c]) \in Nat
      BY <3>1
    <3>4. Cap \in Nat
      BY ShutdownAssumption
    <3>. QED
      BY <3>1, <3>2, <3>3, <3>4
  <2>. QED
    BY <2>1, <2>2
<1>. QED
  BY <1>1, <1>2

\* writePump takes the head of a queue off.
LEMMA WriteStaysBounded ==
  ASSUME SInv, Bounds, NEW c \in Conns, Write(c)
  PROVE  Bounds'
<1>1. ASSUME NEW d \in Conns PROVE Len(send'[d]) <= Cap
  <2>1. send[d] \in Seq({"msg", "bye"}) /\ Len(send[d]) <= Cap
    BY DEF SInv, Types, Bounds
  <2>2. send'[d] = send[d] \/ (send[d] # <<>> /\ send'[d] = Tail(send[d]))
    BY DEF SInv, Types, Write
  <2>3. Len(send[d]) \in Nat /\ Cap \in Nat
    BY <2>1, ShutdownAssumption
  <2>4. ASSUME send[d] # <<>> PROVE Len(Tail(send[d])) <= Cap
    <3>1. Len(Tail(send[d])) = Len(send[d]) - 1
      BY <2>1, <2>4
    <3>. QED
      BY <2>1, <2>3, <3>1
  <2>. QED
    BY <2>1, <2>2, <2>4
<1>2. told' \subseteq Conns
  BY DEF Bounds, Write
<1>. QED
  BY <1>1, <1>2 DEF Bounds, Write, lockVars, connVars, subVars

LEMMA HandlersStayBounded ==
  ASSUME SInv, Bounds, NEW c \in Conns, Check(c) \/ PeerCloses(c) \/ HandlerStep(c) \/ PumpStep(c)
  PROVE  Bounds'
<1>1. CASE Check(c) \/ PeerCloses(c)
  BY <1>1 DEF Bounds, Check, PeerCloses, lockVars, connVars, pumpVars, sendVars, subVars
<1>2. CASE LockToJoin(c) \/ LockToLeave(c)
  BY <1>2 DEF Bounds, LockToJoin, LockToLeave, Announced, pumpVars, sendVars, subVars
<1>3. CASE Join(c) \/ Leave(c)
  BY <1>3 DEF Bounds, Join, Leave, Written, pumpVars, sendVars, subVars
<1>4. CASE StartPumps(c) \/ CleanUp(c)
  BY <1>4 DEF Bounds, StartPumps, CleanUp, lockVars, pumpVars, sendVars, subVars
<1>5. CASE WriteFails(c) \/ WriteClose(c)
  BY <1>5 DEF Bounds, WriteFails, WriteClose, lockVars, connVars, sendVars, subVars
<1>. QED
  BY <1>1, <1>2, <1>3, <1>4, <1>5, WriteStaysBounded DEF HandlerStep, PumpStep

LEMMA SubscriberStaysBounded ==
  ASSUME SInv, Bounds, Publish \/ SubscriberStep
  PROVE  Bounds'
<1>1. MaxEvents \in Nat
  BY ShutdownAssumption
<1>2. CASE Publish
  BY <1>1, <1>2 DEF Bounds, Publish, lockVars, connVars, pumpVars, sendVars
<1>3. CASE Receive
  BY <1>1, <1>3 DEF Bounds, Receive, Acquired, connVars, pumpVars, sendVars
<1>4. CASE FanOut
  <2>1. full' \subseteq Conns /\ \A c \in Conns : Len(send'[c]) <= Cap
    BY <1>4, QueuesStayBounded DEF FanOut
  <2>. QED
    BY <1>4, <2>1 DEF Bounds, FanOut, Released, connVars, pumpVars
<1>5. CASE SubscriberEnds
  BY <1>5 DEF Bounds, SubscriberEnds, lockVars, connVars, pumpVars, sendVars
<1>. QED
  BY <1>2, <1>3, <1>4, <1>5 DEF SubscriberStep

LEMMA ShutdownStaysBounded ==
  ASSUME SInv, Bounds, Signal \/ ShutdownStep
  PROVE  Bounds'
<1>1. CASE Signal \/ CloseRoomSubs \/ List \/ AllDone
  BY <1>1 DEF Bounds, Signal, CloseRoomSubs, List, AllDone, lockVars, connVars, pumpVars,
      sendVars, subVars
<1>2. CASE LockToTell \/ NobodyToTell \/ LockAgain
  BY <1>2 DEF Bounds, LockToTell, NobodyToTell, LockAgain, Acquired, Released, connVars,
      pumpVars, sendVars, subVars
<1>3. CASE Tell
  <2>1. full' \subseteq Conns /\ \A c \in Conns : Len(send'[c]) <= Cap
    BY <1>3, QueuesStayBounded DEF Tell
  <2>. QED
    BY <1>3, <2>1 DEF Bounds, Tell, Released, connVars, pumpVars, subVars
<1>4. CASE GraceOver
  BY <1>4 DEF Bounds, GraceOver, lockVars, connVars, pumpVars, sendVars, subVars
<1>5. ASSUME NEW c \in Conns, CloseSend(c) PROVE Bounds'
  BY <1>5 DEF Bounds, CloseSend, lockVars, connVars, pumpVars, subVars
<1>. QED
  BY <1>1, <1>2, <1>3, <1>4, <1>5 DEF ShutdownStep

\* Types: no send queue outgrows its channel, whatever enqueueToRoom is asked to
\* add, and the subscription's buffer holds published events only.
THEOREM ShutdownTypes == Spec => []ShutdownTypeOK
<1>1. Init => Bounds
  BY ShutdownAssumption DEF Init, Bounds
<1>2. SInv /\ Bounds /\ [Next]_vars => Bounds'
  <2>. SUFFICES ASSUME SInv, Bounds, [Next]_vars PROVE Bounds'
    OBVIOUS
  <2>1. CASE UNCHANGED vars
    BY <2>1 DEF Bounds, vars, lockVars, connVars, pumpVars, sendVars, subVars
  <2>. QED
    BY <2>1, HandlersStayBounded, SubscriberStaysBounded, ShutdownStaysBounded DEF Next
<1>3. SInv /\ Bounds => ShutdownTypeOK
  <2>. SUFFICES ASSUME SInv, Bounds PROVE ShutdownTypeOK
    OBVIOUS
  <2>1. inbox \in 0..MaxEvents /\ events \in 0..MaxEvents
    BY ShutdownAssumption DEF Bounds
  <2>2. framed \subseteq Conns
    BY DEF SInv, Broadcast
  <2>. QED
    BY <2>1, <2>2 DEF ShutdownTypeOK, Bounds, SInv, Types, Phases, Stages, LockHeld
<1>. QED
  BY <1>1, <1>2, <1>3, ShutdownInvariant, PTL DEF Spec

=============================================================================
