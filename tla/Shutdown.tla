------------------------------ MODULE Shutdown ------------------------------
(***************************************************************************)
(* gracefulShutdown against the goroutines it is to end: handlers that     *)
(* have passed the check of the flag, the two pumps of every connection,   *)
(* and the room's subscriber, which still has events to fan out.  One      *)
(* room, whose subscription is kept while clients come and go (starting    *)
(* and stopping it is RoomSubscription).                                   *)
(*                                                                         *)
(* roomsLock is a sync.RWMutex: a writer that waits for the readers to     *)
(* leave lets no new reader in.                                            *)
(***************************************************************************)
EXTENDS Naturals, Sequences

CONSTANTS
  Conns,      \* requests for a WebSocket, each used once
  None,
  Cap,        \* the length of a send queue
  MaxEvents   \* bound: events that reach the room's subscription

ASSUME ShutdownAssumption ==
  /\ None \notin Conns
  /\ Cap \in Nat \ {0} /\ MaxEvents \in Nat

VARIABLES
  phase,      \* how far main and gracefulShutdown got
  toClose,    \* the clients gracefulShutdown has listed
  writer,     \* who holds roomsLock for writing or waits for its readers, or None
  reading,    \* the read locks held: "tell" and "inner" by the shutdown, "fan" by the subscriber
  rooms,      \* the clients in rooms[room]
  stage,      \* stage[c]: the handler, then the readPump of c
  pump,       \* pump[c]: the writePump of c
  sock,       \* sock[c]: c's socket, "open" or "closed" by either end
  send, closed,             \* send[c]: the queue; closed[c]: its channel is closed
  subscribed, inbox, worker, events,    \* the PubSub, its buffer, the subscriber, events so far
  crashed,    \* the process died of a panic
  \* What the properties look back on:
  told,       \* clients to whom server_shutdown was written
  framed,     \* clients to whom a close frame was written
  late,       \* clients that joined after the broadcast
  full,       \* clients whose queue was full once
  backlog     \* channels were closed while the subscriber had events left

lockVars == <<writer, reading>>
connVars == <<rooms, stage, late>>
pumpVars == <<pump, told, framed>>
sendVars == <<send, closed, full, crashed>>
subVars == <<subscribed, inbox, worker, events>>
endVars == <<phase, toClose, backlog>>
vars == <<endVars, lockVars, connVars, pumpVars, sendVars, subVars, sock>>

Init ==
  /\ phase = "up" /\ toClose = {}
  /\ writer = None /\ reading = {}
  /\ rooms = {}
  /\ stage = [c \in Conns |-> "away"]
  /\ pump = [c \in Conns |-> "off"]
  /\ sock = [c \in Conns |-> "open"]
  /\ send = [c \in Conns |-> <<>>]
  /\ closed = [c \in Conns |-> FALSE]
  /\ subscribed = TRUE /\ inbox = 0 /\ worker = "idle" /\ events = 0
  /\ crashed = FALSE
  /\ told = {} /\ framed = {} /\ late = {} /\ full = {}
  /\ backlog = FALSE

Alive == ~crashed /\ phase # "ended"

-----------------------------------------------------------------------------
(* roomsLock.                                                              *)

\* A read lock; it is held until Released.
Acquired(r) == writer = None /\ reading' = reading \cup {r} /\ UNCHANGED writer
Released(rs) == reading' = reading \ rs /\ UNCHANGED writer

\* Lock: from here on no reader is let in.
Announced(c) == writer = None /\ writer' = c /\ UNCHANGED reading
\* The readers have left; the critical section and Unlock are one step.
Written(c) == writer = c /\ reading = {} /\ writer' = None /\ UNCHANGED reading

-----------------------------------------------------------------------------
(* The handler of a connection, then its readPump.                         *)

Step(c, from, to) == Alive /\ stage[c] = from /\ stage' = [stage EXCEPT ![c] = to]

\* Not while shutting; then the handshake, which takes its time.
Check(c) ==
  /\ Step(c, "away", "checked")
  /\ phase = "up"
  /\ UNCHANGED <<endVars, lockVars, rooms, late, pumpVars, sendVars, subVars, sock>>

LockToJoin(c) ==
  /\ Step(c, "checked", "joining")
  /\ Announced(c)
  /\ UNCHANGED <<endVars, rooms, late, pumpVars, sendVars, subVars, sock>>

Join(c) ==
  /\ Step(c, "joining", "joined")
  /\ Written(c)
  /\ rooms' = rooms \cup {c}
  /\ late' = IF phase \in {"up", "flagged"} THEN late ELSE late \cup {c}
  /\ UNCHANGED <<endVars, pumpVars, sendVars, subVars, sock>>

StartPumps(c) ==
  /\ Step(c, "joined", "serving")
  /\ pump' = [pump EXCEPT ![c] = "on"]
  /\ UNCHANGED <<endVars, lockVars, rooms, late, told, framed, sendVars, subVars, sock>>

PeerCloses(c) ==
  /\ Alive
  /\ stage[c] = "serving" /\ sock[c] = "open"
  /\ sock' = [sock EXCEPT ![c] = "closed"]
  /\ UNCHANGED <<endVars, lockVars, connVars, pumpVars, sendVars, subVars>>

\* A read fails only when the socket is closed (or silent for 70 seconds, which
\* PeerCloses stands for too): readPump is told nothing else.
LockToLeave(c) ==
  /\ Step(c, "serving", "leaving")
  /\ sock[c] = "closed"
  /\ Announced(c)
  /\ UNCHANGED <<endVars, rooms, late, pumpVars, sendVars, subVars, sock>>

Leave(c) ==
  /\ Step(c, "leaving", "left")
  /\ Written(c)
  /\ rooms' = rooms \ {c}
  /\ UNCHANGED <<endVars, late, pumpVars, sendVars, subVars, sock>>

CleanUp(c) ==
  /\ Step(c, "left", "gone")
  /\ closed' = [closed EXCEPT ![c] = TRUE]
  /\ UNCHANGED <<endVars, lockVars, rooms, late, pumpVars, send, full, crashed, subVars, sock>>

-----------------------------------------------------------------------------
(* writePump.                                                              *)

Pumping(c) == Alive /\ pump[c] = "on"

Write(c) ==
  /\ Pumping(c) /\ send[c] # <<>> /\ sock[c] = "open"
  /\ send' = [send EXCEPT ![c] = Tail(@)]
  /\ told' = IF Head(send[c]) = "bye" THEN told \cup {c} ELSE told
  /\ UNCHANGED <<endVars, lockVars, connVars, pump, framed, closed, full, crashed, subVars, sock>>

\* The socket is closed, which a ping finds out too, or ten seconds pass without
\* the peer reading.
WriteFails(c) ==
  /\ Pumping(c) /\ (send[c] # <<>> \/ sock[c] = "closed")
  /\ pump' = [pump EXCEPT ![c] = "done"]
  /\ UNCHANGED <<endVars, lockVars, connVars, told, framed, sendVars, subVars, sock>>

\* The channel is closed and drained: a close frame, if it gets through.
WriteClose(c) ==
  /\ Pumping(c) /\ send[c] = <<>> /\ closed[c]
  /\ pump' = [pump EXCEPT ![c] = "done"]
  /\ framed' = IF sock[c] = "open" THEN framed \cup {c} ELSE framed
  /\ UNCHANGED <<endVars, lockVars, connVars, told, sendVars, subVars, sock>>

-----------------------------------------------------------------------------
(* enqueueToRoom, called by the subscriber and by the shutdown.            *)

Room(c) == Len(send[c]) < Cap

\* A send on a closed channel panics.
Panics == \E c \in rooms : closed[c]

\* Mutant: without the default branch, as if the channel had no bound.
EnqueuedAnyway(m) ==
  IF Panics
  THEN crashed' = TRUE /\ UNCHANGED <<send, closed, full>>
  ELSE /\ send' = [c \in Conns |-> IF c \in rooms THEN Append(send[c], m) ELSE send[c]]
       /\ UNCHANGED <<closed, full, crashed>>

Enqueued(m) ==
  IF Panics
  THEN crashed' = TRUE /\ UNCHANGED <<send, closed, full>>
  ELSE /\ send' = [c \in Conns |-> IF c \in rooms /\ Room(c) THEN Append(send[c], m) ELSE send[c]]
       /\ closed' = [c \in Conns |-> closed[c] \/ (c \in rooms /\ ~Room(c))]
       /\ full' = full \cup {c \in rooms : ~Room(c)}
       /\ UNCHANGED crashed

Publish ==
  /\ Alive /\ subscribed /\ events < MaxEvents
  /\ events' = events + 1
  /\ inbox' = inbox + 1
  /\ UNCHANGED <<endVars, lockVars, connVars, pumpVars, sendVars, subscribed, worker, sock>>

\* The buffer of a closed PubSub is drained before the subscriber sees the end.
\* (What it does with an event before it takes the lock is RoomDelivery.)
Receive ==
  /\ Alive /\ worker = "idle" /\ inbox > 0
  /\ Acquired("fan")
  /\ inbox' = inbox - 1
  /\ worker' = "fanning"
  /\ UNCHANGED <<endVars, connVars, pumpVars, sendVars, subscribed, events, sock>>

FanOut ==
  /\ Alive /\ worker = "fanning"
  /\ Enqueued("msg")
  /\ Released({"fan"})
  /\ worker' = "idle"
  /\ UNCHANGED <<endVars, connVars, pumpVars, subscribed, inbox, events, sock>>

SubscriberEnds ==
  /\ Alive /\ worker = "idle" /\ inbox = 0 /\ ~subscribed
  /\ worker' = "stopped"
  /\ UNCHANGED <<endVars, lockVars, connVars, pumpVars, sendVars, subscribed, inbox, events, sock>>

-----------------------------------------------------------------------------
(* gracefulShutdown.                                                       *)

At(from, to) == Alive /\ phase = from /\ phase' = to

\* The flags, a last heartbeat, and the root context cancelled: the context of
\* the shutdown is its child, so it has no time left from here on.
Signal ==
  /\ At("up", "flagged")
  /\ UNCHANGED <<toClose, backlog, lockVars, connVars, pumpVars, sendVars, subVars, sock>>

\* Mutant: a TryRLock that gives up on the broadcast.
TryLockToTell ==
  /\ Alive /\ phase = "flagged"
  /\ IF writer = None THEN phase' = "telling" /\ reading' = reading \cup {"tell"}
     ELSE phase' = "told" /\ UNCHANGED reading
  /\ UNCHANGED <<writer, toClose, backlog, connVars, pumpVars, sendVars, subVars, sock>>

LockToTell ==
  /\ At("flagged", "telling")
  /\ Acquired("tell")
  /\ UNCHANGED <<toClose, backlog, connVars, pumpVars, sendVars, subVars, sock>>

NobodyToTell ==
  /\ At("telling", "told")
  /\ rooms = {}
  /\ Released({"tell"})
  /\ UNCHANGED <<toClose, backlog, connVars, pumpVars, sendVars, subVars, sock>>

\* enqueueToRoom takes the read lock again, which a waiting writer refuses.
LockAgain ==
  /\ At("telling", "enqueuing")
  /\ rooms # {}
  /\ Acquired("inner")
  /\ UNCHANGED <<toClose, backlog, connVars, pumpVars, sendVars, subVars, sock>>

\* Mutant: one RUnlock for two RLocks.
TellAndKeepLock ==
  /\ At("enqueuing", "told")
  /\ Enqueued("bye")
  /\ Released({"inner"})
  /\ UNCHANGED <<toClose, backlog, connVars, pumpVars, subVars, sock>>

Tell ==
  /\ At("enqueuing", "told")
  /\ Enqueued("bye")
  /\ Released({"tell", "inner"})
  /\ UNCHANGED <<toClose, backlog, connVars, pumpVars, subVars, sock>>

\* Mutant: the subscription is left to end with the process.
KeepRoomSubs ==
  /\ At("told", "listing")
  /\ UNCHANGED <<toClose, backlog, lockVars, connVars, pumpVars, sendVars, subVars, sock>>

CloseRoomSubs ==
  /\ At("told", "listing")
  /\ subscribed' = FALSE
  /\ UNCHANGED <<toClose, backlog, lockVars, connVars, pumpVars, sendVars, inbox, worker, events, sock>>

List ==
  /\ At("listing", "closing")
  /\ writer = None
  /\ toClose' = rooms
  /\ UNCHANGED <<backlog, lockVars, connVars, pumpVars, sendVars, subVars, sock>>

CloseSend(c) ==
  /\ Alive /\ phase = "closing"
  /\ c \in toClose /\ ~closed[c]
  /\ closed' = [closed EXCEPT ![c] = TRUE]
  /\ backlog' = (backlog \/ worker = "fanning" \/ inbox > 0)
  /\ UNCHANGED <<phase, toClose, lockVars, connVars, pumpVars, send, full, crashed, subVars, sock>>

\* After the wait server.Shutdown returns at once, its context being over, and main
\* returns: the process ends with the wait.

\* The WaitGroup counts pumps from their start, and the subscriber.  (And the
\* announcer of a join, which ends by itself.)
Ended(c) == stage[c] \notin {"serving", "leaving", "left"} /\ pump[c] # "on"

AllDone ==
  /\ At("closing", "ended") /\ \A c \in toClose : closed[c]
  /\ \A c \in Conns : Ended(c)
  /\ worker = "stopped"
  /\ UNCHANGED <<toClose, backlog, lockVars, connVars, pumpVars, sendVars, subVars, sock>>

\* Mutant: the clients are closed once they are gone.
GraceForGone ==
  /\ At("closing", "ended") /\ \A c \in toClose : closed[c] /\ stage[c] = "gone"
  /\ sock' = [c \in Conns |-> IF c \in toClose THEN "closed" ELSE sock[c]]
  /\ UNCHANGED <<toClose, backlog, lockVars, connVars, pumpVars, sendVars, subVars>>

\* ctx.Done: the listed clients are closed with whatever is still queued.
GraceOver ==
  /\ At("closing", "ended") /\ \A c \in toClose : closed[c]
  /\ sock' = [c \in Conns |-> IF c \in toClose THEN "closed" ELSE sock[c]]
  /\ UNCHANGED <<toClose, backlog, lockVars, connVars, pumpVars, sendVars, subVars>>

-----------------------------------------------------------------------------
ShutdownStep ==
  \/ LockToTell \/ NobodyToTell \/ LockAgain \/ Tell
  \/ CloseRoomSubs \/ List \/ AllDone \/ GraceOver
  \/ \E c \in Conns : CloseSend(c)

SubscriberStep == Receive \/ FanOut \/ SubscriberEnds

HandlerStep(c) == LockToJoin(c) \/ Join(c) \/ StartPumps(c) \/ LockToLeave(c) \/ Leave(c) \/ CleanUp(c)

PumpStep(c) == Write(c) \/ WriteFails(c) \/ WriteClose(c)

Next ==
  \/ Signal \/ ShutdownStep
  \/ Publish \/ SubscriberStep
  \/ \E c \in Conns : Check(c) \/ PeerCloses(c) \/ HandlerStep(c) \/ PumpStep(c)

\* Go runs every goroutine that can run; clients, events and the signal may
\* never come.
Fairness ==
  /\ WF_vars(ShutdownStep)
  /\ WF_vars(SubscriberStep)
  /\ \A c \in Conns : WF_vars(HandlerStep(c)) /\ WF_vars(PumpStep(c))

Spec == Init /\ [][Next]_vars
FairSpec == Spec /\ Fairness

-----------------------------------------------------------------------------
\* Types; a queue never outgrows its channel (enqueueToRoom does not block).
ShutdownTypeOK ==
  /\ phase \in {"up", "flagged", "telling", "enqueuing", "told", "listing", "closing",
                "ended"}
  /\ writer \in Conns \cup {None} /\ reading \subseteq {"tell", "inner", "fan"}
  /\ toClose \cup rooms \cup told \cup framed \cup late \cup full \subseteq Conns
  /\ stage \in [Conns -> {"away", "checked", "joining", "joined", "serving", "leaving", "left", "gone"}]
  /\ pump \in [Conns -> {"off", "on", "done"}]
  /\ sock \in [Conns -> {"open", "closed"}] /\ closed \in [Conns -> BOOLEAN]
  /\ send \in [Conns -> Seq({"msg", "bye"})] /\ \A c \in Conns : Len(send[c]) <= Cap
  /\ inbox \in 0..MaxEvents /\ events \in 0..MaxEvents
  /\ worker \in {"idle", "fanning", "stopped"}
  /\ {subscribed, crashed, backlog} \subseteq BOOLEAN

\* A client that gets the close frame of the shutdown was sent server_shutdown
\* before it, unless it joined too late for the broadcast or its queue was full
\* (gracefulShutdown, writePump).
FrameFollowsBye == framed \cap toClose \subseteq told \cup late \cup full

\* The process dies of a send on a closed channel only if a client's queue was
\* full, or the subscriber had events left when the shutdown closed the
\* channels (enqueueToRoom, gracefulShutdown).
PanicNeedsBacklog == crashed => full # {} \/ backlog

\* gracefulShutdown holds roomsLock, wants it again, and a join or a leave that
\* waits for it to let go keeps it out.
Deadlocked == phase = "telling" /\ rooms # {} /\ writer # None

\* Once signalled the process ends, unless a join or a leave comes between the
\* two read locks of the broadcast (or a panic ends it first).
ShutdownEnds == phase = "flagged" ~> (phase = "ended" \/ crashed \/ Deadlocked)

\* While somebody waits to join or to leave, whoever holds the lock for reading
\* can go on and give it back, with the same exception (enqueueToRoom).
HolderCanLetGo ==
  Alive /\ writer # None /\ reading # {} =>
    worker = "fanning" \/ phase = "enqueuing" \/ (phase = "telling" /\ rooms = {}) \/ Deadlocked

-----------------------------------------------------------------------------
(* The strengthening of the invariants that is inductive (Shutdown_proofs).  *)

Phases == {"up", "flagged", "telling", "enqueuing", "told", "listing", "closing", "ended"}
Stages == {"away", "checked", "joining", "joined", "serving", "leaving", "left", "gone"}

\* The types the steps below need.
Types ==
  /\ phase \in Phases
  /\ stage \in [Conns -> Stages]
  /\ pump \in [Conns -> {"off", "on", "done"}]
  /\ send \in [Conns -> Seq({"msg", "bye"})]
  /\ closed \in [Conns -> BOOLEAN]
  /\ inbox \in Nat
  /\ worker \in {"idle", "fanning", "stopped"}
  /\ backlog \in BOOLEAN /\ crashed \in BOOLEAN /\ subscribed \in BOOLEAN
  /\ rooms \subseteq Conns /\ toClose \subseteq Conns

\* Who holds roomsLock, and what for.
LockHeld ==
  /\ reading \subseteq {"tell", "inner", "fan"}
  /\ "tell" \in reading => phase \in {"telling", "enqueuing"}
  /\ "inner" \in reading => phase = "enqueuing"
  /\ "fan" \in reading => worker = "fanning"

Before == {"up", "flagged", "telling", "enqueuing"}

\* Where a client of the room is, and when there is a list to close.
Members ==
  /\ \A c \in rooms : stage[c] \in {"joined", "serving", "leaving"}
  /\ \A c \in Conns : stage[c] \in {"away", "checked", "joining", "joined"} => pump[c] = "off"
  /\ phase \notin {"closing", "ended"} => toClose = {}
  /\ phase \in {"listing", "closing", "ended"} => ~subscribed

\* Who closed a channel: a full queue, the clean-up of its readPump, or the shutdown.
ClosedBy == \A c \in Conns : closed[c] => c \in full \/ stage[c] = "gone" \/ c \in toClose

Told(c) == c \in told \cup late \cup full

HasBye(q) == \E i \in 1..Len(q) : q[i] = "bye"

\* After the broadcast a client has been told or will be, its writePump permitting;
\* before it, only a client whose queue was full has got a close frame.
Broadcast ==
  /\ framed \subseteq {c \in Conns : pump[c] = "done"}
  /\ \A c \in rooms : c \in framed /\ phase \in Before => c \in full
  /\ ~crashed /\ phase \notin Before =>
       \A c \in rooms \cup toClose :
         Told(c) \/ (c \notin framed /\ (pump[c] # "done" => HasBye(send[c])))

\* The shutdown has closed channels of a subscriber with events left.
Backlogged ==
  (\E c \in toClose : closed[c] /\ c \notin full /\ stage[c] # "gone")
     /\ (worker = "fanning" \/ inbox > 0) => backlog

SInv ==
  /\ Types /\ LockHeld /\ Members /\ ClosedBy /\ Broadcast /\ Backlogged
  /\ FrameFollowsBye /\ PanicNeedsBacklog
=============================================================================
