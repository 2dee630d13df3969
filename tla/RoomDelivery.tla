---------------------------- MODULE RoomDelivery ----------------------------
(***************************************************************************)
(* How a room event travels on one chat server: a readPump (or a join or   *)
(* leave announcement) publishes it on the room's Redis channel, the       *)
(* room's subscriber appends it to the history and fans it out into the    *)
(* bounded send queue of every client, and each client's writePump writes  *)
(* its queue to the socket.  Composes with RoomSubscription, whose steps   *)
(* decide who subscribes and who is a member.  The shutdown steps are left *)
(* out: what is in flight then is dropped with the process.                *)
(***************************************************************************)
EXTENDS RoomSubscription, SequencesExt

CONSTANTS
  Followed,    \* Followed[c]: the types of event by c that are followed; the others
               \* are published and delivered in the same way, so they only add traffic
  MaxEvents,   \* bound: events a client sends
  SendCap,     \* capacity of client.send (64 in the code)
  HistoryCap,  \* entries LTrim keeps (100 in the code)
  MaxLost      \* bound: LPush calls that fail

ASSUME DeliveryAssumption ==
  /\ MaxEvents \in Nat /\ SendCap \in Nat /\ HistoryCap \in Nat /\ MaxLost \in Nat
  /\ None \notin Rooms

VARIABLES
  live,       \* PubSubs whose SUBSCRIBE Redis has processed
  inbox,      \* inbox[w]: published messages on their way to subscriber w
  work,       \* work[w]: the message w has received and not yet fanned out
  trimming,   \* subscribers between their LPush and their LTrim
  todo,       \* todo[w]: the clients w's enqueueToRoom has still to reach
  history,    \* history[r]: chat_history:r, newest first
  lost,       \* messages whose LPush failed
  send,       \* send[c]: the client's queue
  closed,     \* closed[c]: client.closed, and so the channel
  writer,     \* writer[c]: writePump "none", "running", "ended"
  events,     \* events[c]: number of events c has sent
  hello,      \* hello[c]: the join announcement has been published
  bye,        \* bye[c]: readPump's end: "no", "closed", "published"
  crashed,    \* the process died of a panic
  \* What the properties look back on:
  fanned,     \* fanned[w]: messages in the order w called enqueueToRoom
  seen,       \* seen[c][w]: how far into fanned[w] c has been written
  offered     \* offered[c]: messages enqueueToRoom tried to queue for c

redisVars  == <<live, inbox, history, lost>>
queueVars  == <<send, closed, offered>>
writeVars  == <<writer, seen>>
talkVars   == <<events, hello, bye>>
fanVars    == <<work, trimming, todo, fanned>>
clientVars == <<queueVars, writeVars>>
deliveryVars == <<redisVars, clientVars, talkVars, fanVars, crashed>>
allVars == <<vars, deliveryVars>>

Kinds == {"chat", "typing", "join", "leave"}

Message == [kind : Kinds, by : Conns, n : 0 .. MaxEvents]

\* What a send queue holds: the message fanned[feed][at].
Entry == [feed : Conns, at : Nat]

\* Typing indicators are live-only.
IsHistoryType(kind) == kind # "typing"

DInit ==
  /\ Init
  /\ live = {}
  /\ inbox = [w \in Conns |-> <<>>]
  /\ work = [w \in Conns |-> <<>>]
  /\ trimming = {}
  /\ todo = [w \in Conns |-> {}]
  /\ history = [r \in Rooms |-> <<>>]
  /\ lost = {}
  /\ send = [c \in Conns |-> <<>>]
  /\ closed = [c \in Conns |-> FALSE]
  /\ writer = [c \in Conns |-> "none"]
  /\ events = [c \in Conns |-> 0]
  /\ hello = [c \in Conns |-> FALSE]
  /\ bye = [c \in Conns |-> "no"]
  /\ crashed = FALSE
  /\ fanned = [w \in Conns |-> <<>>]
  /\ seen = [c \in Conns |-> [w \in Conns |-> 0]]
  /\ offered = [c \in Conns |-> 0]

-----------------------------------------------------------------------------
(* Redis pub/sub: at most once, to whoever is subscribed at that moment.   *)

\* PUBLISH on the room's channel, of an event of a type that is followed.  It may
\* fail: the error is ignored, and the event is lost.
Publish(r, m) ==
  /\ \/ UNCHANGED inbox
     \/ inbox' = [w \in Conns |-> IF w \in live /\ url[w] = r /\ m.kind \in Followed[m.by]
                                  THEN Append(inbox[w], m) ELSE inbox[w]]
  /\ UNCHANGED <<live, history, lost>>

\* Redis processes the SUBSCRIBE that go-redis sent without waiting for it.
RedisSubscribed(w) ==
  /\ ~crashed
  /\ worker[w] \in {"open", "serving"}
  /\ w \notin psClosed \cup live
  /\ live' = live \cup {w}
  /\ UNCHANGED <<vars, inbox, history, lost, clientVars, talkVars,
                 fanVars, crashed>>

\* Closing w: what had not reached the Go channel yet is gone, the rest is
\* still read by the subscriber.
Unsubscribed(w) ==
  /\ live' = live \ {w}
  /\ \E k \in 0 .. Len(inbox[w]) :
       inbox' = [inbox EXCEPT ![w] = SubSeq(@, 1, k)]
  /\ UNCHANGED <<history, lost>>

-----------------------------------------------------------------------------
(* The steps of RoomSubscription, with what they do to delivery.           *)

\* roomsLock can be had for writing: no enqueueToRoom holds it for reading.
NobodyEnqueues == \A w \in Conns : todo[w] = {}

DJoin(c) ==
  /\ ~crashed
  /\ NobodyEnqueues
  /\ Join(c)
  /\ seen' = [seen EXCEPT ![c] = [w \in Conns |-> Len(fanned[w])]]
  /\ UNCHANGED <<redisVars, queueVars, writer, talkVars, fanVars, crashed>>

DStartPumps(c) ==
  /\ ~crashed
  /\ StartPumps(c)
  /\ writer' = [writer EXCEPT ![c] = "running"]
  /\ UNCHANGED <<redisVars, queueVars, seen, talkVars, fanVars, crashed>>

DStopClose(c) ==
  /\ ~crashed
  /\ StopClose(c)
  /\ IF taken[c] = None THEN UNCHANGED redisVars ELSE Unsubscribed(taken[c])
  /\ UNCHANGED <<clientVars, talkVars, fanVars, crashed>>

DGiveUp(w) ==
  /\ ~crashed
  /\ GiveUp(w)
  /\ Unsubscribed(w)
  /\ UNCHANGED <<clientVars, talkVars, fanVars, crashed>>

\* The loop ends when the closed channel is drained.
DFinish(w) ==
  /\ ~crashed
  /\ inbox[w] = <<>> /\ work[w] = <<>> /\ todo[w] = {}
  /\ Finish(w)
  /\ UNCHANGED deliveryVars

DAccept(c) ==
  /\ ~crashed
  /\ Accept(c)
  /\ UNCHANGED deliveryVars

DLeave(c) ==
  /\ ~crashed
  /\ NobodyEnqueues
  /\ Leave(c)
  /\ UNCHANGED deliveryVars

\* The server's own steps that move no message.
Unaffected(c) ==
  /\ ~crashed
  /\ \/ KeepSubscription(c) \/ StartSubscription(c)
     \/ StopNotNeeded(c) \/ StopCheck(c) \/ StopClear(c)
     \/ Subscribe(c) \/ Register(c)
  /\ UNCHANGED deliveryVars

-----------------------------------------------------------------------------
(* Publishers.                                                             *)

\* readPump: an event the client sent, stamped with the connection's name.
SendEvent(c, kind) ==
  /\ ~crashed
  /\ pump[c] = "reading"
  /\ events[c] < MaxEvents
  /\ events' = [events EXCEPT ![c] = @ + 1]
  /\ Publish(url[c], [kind |-> kind, by |-> c, n |-> events[c] + 1])
  /\ UNCHANGED <<vars, clientVars, hello, bye, fanVars, crashed>>

\* handleConnections: announced by a goroutine, 100ms later.
AnnounceJoin(c) ==
  /\ ~crashed
  /\ handler[c] = "done"
  /\ "join" \in Followed[c] /\ ~hello[c]
  /\ hello' = [hello EXCEPT ![c] = TRUE]
  /\ Publish(url[c], [kind |-> "join", by |-> c, n |-> 0])
  /\ UNCHANGED <<vars, clientVars, events, bye, fanVars, crashed>>

\* readPump's end, after stopSubscriptionIfEmpty: safeClose and conn.Close.
CloseClient(c) ==
  /\ ~crashed
  /\ pump[c] = "gone"
  /\ bye[c] = "no"
  /\ bye' = [bye EXCEPT ![c] = "closed"]
  /\ closed' = [closed EXCEPT ![c] = TRUE]
  /\ UNCHANGED <<vars, redisVars, send, offered, writeVars, events, hello,
                 fanVars, crashed>>

AnnounceLeave(c) ==
  /\ ~crashed
  /\ bye[c] = "closed"
  /\ bye' = [bye EXCEPT ![c] = "published"]
  /\ Publish(url[c], [kind |-> "leave", by |-> c, n |-> 0])
  /\ UNCHANGED <<vars, clientVars, events, hello, fanVars, crashed>>

-----------------------------------------------------------------------------
(* The subscriber: store, then fan out.                                    *)

Receiving(w) ==
  /\ ~crashed
  /\ worker[w] = "serving"
  /\ work[w] = <<>> /\ todo[w] = {} /\ inbox[w] # <<>>

\* The message at hand.
Take(w) ==
  /\ work' = [work EXCEPT ![w] = <<Head(inbox[w])>>]
  /\ inbox' = [inbox EXCEPT ![w] = Tail(@)]

\* A type that does not belong in the history is fanned out at once.
TakeLive(w) ==
  /\ Receiving(w)
  /\ ~IsHistoryType(Head(inbox[w]).kind)
  /\ Take(w)
  /\ UNCHANGED <<vars, live, history, lost, clientVars, talkVars, trimming,
                 todo, fanned, crashed>>

\* Mutant: the message is not stored.
LPushSkipped(w) ==
  /\ Receiving(w)
  /\ IsHistoryType(Head(inbox[w]).kind)
  /\ Take(w)
  /\ trimming' = trimming \cup {w}
  /\ UNCHANGED <<vars, live, history, lost, clientVars, talkVars, todo,
                 fanned, crashed>>

LPush(w) ==
  /\ Receiving(w)
  /\ IsHistoryType(Head(inbox[w]).kind)
  /\ Take(w)
  /\ history' = [history EXCEPT ![url[w]] = <<Head(inbox[w])>> \o @]
  /\ trimming' = trimming \cup {w}
  /\ UNCHANGED <<vars, live, lost, clientVars, talkVars, todo, fanned, crashed>>

\* LPush fails: logged, and all the rest is done all the same.
LPushFails(w) ==
  /\ Receiving(w)
  /\ IsHistoryType(Head(inbox[w]).kind)
  /\ Cardinality(lost) < MaxLost
  /\ Take(w)
  /\ lost' = lost \cup {Head(inbox[w])}
  /\ trimming' = trimming \cup {w}
  /\ UNCHANGED <<vars, live, history, clientVars, talkVars, todo, fanned, crashed>>

\* A list that is pushed to at its head keeps its first HistoryCap entries.
Trimmed(list) == SubSeq(list, 1, IF Len(list) < HistoryCap THEN Len(list) ELSE HistoryCap)

\* A call of its own, whose error is ignored.
LTrim(w) ==
  /\ ~crashed
  /\ w \in trimming
  /\ \/ UNCHANGED history
     \/ history' = [history EXCEPT ![url[w]] = Trimmed(@)]
  /\ trimming' = trimming \ {w}
  /\ UNCHANGED <<vars, live, inbox, lost, clientVars, talkVars, work, todo,
                 fanned, crashed>>

\* enqueueToRoom is entered: it holds roomsLock for reading until todo[w] is empty,
\* so the members stay the same, but other subscribers may enqueue meanwhile.
FanOut(w) ==
  /\ ~crashed
  /\ work[w] # <<>> /\ w \notin trimming
  /\ work' = [work EXCEPT ![w] = <<>>]
  /\ fanned' = [fanned EXCEPT ![w] = @ \o work[w]]
  /\ todo' = [todo EXCEPT ![w] = rooms[url[w]]]
  /\ UNCHANGED <<vars, redisVars, clientVars, talkVars, trimming, crashed>>

\* Mutant: one event too many.
FullLate(c) == Len(send[c]) > SendCap

\* Mutant: one event too few.
FullEarly(c) == Len(send[c]) + 1 >= SendCap

Full(c) == Len(send[c]) >= SendCap

\* Mutant: a client whose queue is full misses the message and stays open.
EnqueueDrops(w, c) ==
  /\ ~crashed
  /\ c \in todo[w] /\ ~closed[c]
  /\ todo' = [todo EXCEPT ![w] = @ \ {c}]
  /\ offered' = [offered EXCEPT ![c] = @ + 1]
  /\ send' = [send EXCEPT ![c] = IF Full(c) THEN @
                                 ELSE Append(@, [feed |-> w, at |-> Len(fanned[w])])]
  /\ UNCHANGED <<vars, redisVars, closed, writeVars, talkVars, work, trimming,
                 fanned, crashed>>

\* One turn of the loop, over a map whose order is random.  It never blocks: a
\* client whose queue is full has it closed (safeClose).
Enqueue(w, c) ==
  /\ ~crashed
  /\ c \in todo[w] /\ ~closed[c]
  /\ todo' = [todo EXCEPT ![w] = @ \ {c}]
  /\ offered' = [offered EXCEPT ![c] = @ + 1]
  /\ IF Full(c)
     THEN closed' = [closed EXCEPT ![c] = TRUE] /\ UNCHANGED send
     ELSE /\ send' = [send EXCEPT ![c] = Append(@, [feed |-> w, at |-> Len(fanned[w])])]
          /\ UNCHANGED closed
  /\ UNCHANGED <<vars, redisVars, writeVars, talkVars, work, trimming, fanned, crashed>>

\* The member's channel is closed already: the send in the select panics, in a
\* goroutine nobody recovers.
EnqueuePanics(w, c) ==
  /\ ~crashed
  /\ c \in todo[w] /\ closed[c]
  /\ crashed' = TRUE
  /\ UNCHANGED <<vars, redisVars, clientVars, talkVars, fanVars>>

-----------------------------------------------------------------------------
(* writePump.                                                              *)

\* The head of c's queue goes out on the socket.
WriteHead(c) ==
  /\ send' = [send EXCEPT ![c] = Tail(@)]
  /\ seen' = [seen EXCEPT ![c][Head(send[c]).feed] = Head(send[c]).at]

\* Mutant: wait for a batch of two.
WriteBatched(c) ==
  /\ ~crashed
  /\ writer[c] = "running"
  /\ Len(send[c]) > 1
  /\ WriteHead(c)
  /\ UNCHANGED <<vars, redisVars, closed, offered, writer, talkVars, fanVars, crashed>>

Write(c) ==
  /\ ~crashed
  /\ writer[c] = "running"
  /\ send[c] # <<>>
  /\ WriteHead(c)
  /\ UNCHANGED <<vars, redisVars, closed, offered, writer, talkVars, fanVars, crashed>>

\* Mutant: the pump goes on with the next message.
WriteFailsAndGoesOn(c) ==
  /\ ~crashed
  /\ writer[c] = "running"
  /\ send[c] # <<>>
  /\ send' = [send EXCEPT ![c] = Tail(@)]
  /\ UNCHANGED <<vars, redisVars, closed, offered, writeVars, talkVars, fanVars, crashed>>

\* A write or a ping fails and the pump returns, leaving the connection open;
\* what it had taken from the queue is not written.
WriteFails(c) ==
  /\ ~crashed
  /\ writer[c] = "running"
  /\ writer' = [writer EXCEPT ![c] = "ended"]
  /\ send' = [send EXCEPT ![c] = IF @ = <<>> THEN @ ELSE Tail(@)]
  /\ UNCHANGED <<vars, redisVars, closed, offered, seen, talkVars, fanVars, crashed>>

\* Closed and drained: a Close frame, and the pump returns.
WriterCloses(c) ==
  /\ ~crashed
  /\ writer[c] = "running"
  /\ send[c] = <<>> /\ closed[c]
  /\ writer' = [writer EXCEPT ![c] = "ended"]
  /\ UNCHANGED <<vars, redisVars, queueVars, seen, talkVars, fanVars, crashed>>

-----------------------------------------------------------------------------
Connection(c) == DAccept(c) \/ DJoin(c) \/ DStartPumps(c) \/ DLeave(c)
                 \/ DStopClose(c) \/ Unaffected(c)
Talk(c) == \/ \E kind \in Followed[c] \cap {"chat", "typing"} : SendEvent(c, kind)
           \/ AnnounceJoin(c) \/ CloseClient(c) \/ AnnounceLeave(c)
Consume(w) == \/ DFinish(w) \/ TakeLive(w) \/ LPush(w) \/ LPushFails(w) \/ LTrim(w)
              \/ FanOut(w) \/ \E c \in Conns : Enqueue(w, c) \/ EnqueuePanics(w, c)
Subscriber(w) == RedisSubscribed(w) \/ DGiveUp(w) \/ Consume(w)
WritePump(c) == Write(c) \/ WriteFails(c) \/ WriterCloses(c)

DNext ==
  \E c \in Conns : Connection(c) \/ Talk(c) \/ Subscriber(c) \/ WritePump(c)

DSpec == DInit /\ [][DNext]_allVars

\* A running subscriber goes on; a joined client gets its writePump, which goes on.
DeliverySpec ==
  /\ DSpec
  /\ \A c \in Conns :
       WF_allVars(Consume(c)) /\ WF_allVars(DStartPumps(c) \/ Write(c) \/ WriterCloses(c))

-----------------------------------------------------------------------------
(* Properties.                                                             *)

DTypeOK ==
  /\ TypeOK
  /\ live \in SUBSET Conns
  /\ inbox \in [Conns -> Seq(Message)]
  /\ work \in [Conns -> Seq(Message)]
  /\ trimming \in SUBSET Conns
  /\ todo \in [Conns -> SUBSET Conns]
  /\ history \in [Rooms -> Seq(Message)]
  /\ lost \in SUBSET Message
  /\ send \in [Conns -> Seq(Entry)]
  /\ \A c \in Conns : Len(send[c]) <= SendCap
  /\ closed \in [Conns -> BOOLEAN]
  /\ writer \in [Conns -> {"none", "running", "ended"}]
  /\ events \in [Conns -> 0 .. MaxEvents]
  /\ hello \in [Conns -> BOOLEAN]
  /\ bye \in [Conns -> {"no", "closed", "published"}]
  /\ crashed \in BOOLEAN
  /\ fanned \in [Conns -> Seq(Message)]
  /\ seen \in [Conns -> [Conns -> Nat]]
  /\ offered \in [Conns -> Nat]

\* The n-th message of subscriber w is among the first m of c's queue.
Queued(c, w, n, m) == \E j \in 1 .. m : send[c][j] = [feed |-> w, at |-> n]

\* The n-th message of w may stand behind the first m of c's queue: it is of c's
\* room, and all that w fanned out before it, and nothing after it, came earlier.
InTurn(c, w, n, m) ==
  /\ url[w] = url[c]
  /\ seen[c][w] < n
  /\ \A k \in seen[c][w] + 1 .. n - 1 : Queued(c, w, k, m)
  /\ ~ \E k \in n .. Len(fanned[w]) : Queued(c, w, k, m)

\* Nothing twice, in the wrong order, or skipped.
InOrder(c) ==
  \A i \in 1 .. Len(send[c]) : InTurn(c, send[c][i].feed, send[c][i].at, i - 1)

\* What c has not been written of w's messages is in its queue, up to the one
\* that is being handed out.
UpToDate(c, w) ==
  \A n \in seen[c][w] + 1 .. Len(fanned[w]) :
    Queued(c, w, n, Len(send[c])) \/ (n = Len(fanned[w]) /\ c \in todo[w])

\* A client never misses a message in the middle: as long as it is written to, its
\* queue continues what it has been written of each subscriber's messages, and as
\* long as it is open too, it lacks none of what its room fanned out since it
\* joined.  A client that cannot keep up is closed, not skipped (enqueueToRoom's
\* default branch).  The order is that of each subscriber: two that overlap hold
\* roomsLock for reading only, and may reach two clients in different orders.
NoGap ==
  \A c \in Conns : writer[c] # "ended" =>
    /\ InOrder(c)
    /\ c \in rooms[url[c]] /\ ~closed[c] =>
         \A w \in Conns : url[w] = url[c] => UpToDate(c, w)

\* Nobody is cut off too early: a member is closed, and the panic that may follow
\* is possible, only if its room has fanned out more since it joined than a queue
\* holds (enqueueToRoom; a readPump closes its own client after it has left).
OnlyTheSlowAreCut ==
  /\ \A c \in Conns : closed[c] /\ c \in rooms[url[c]] => offered[c] > SendCap
  /\ crashed => \E c \in Conns : closed[c] /\ c \in rooms[url[c]]

\* The room a client has joined, as RoomLog knows it.
Entered == [c \in Conns |-> IF handler[c] \in {"new", "accepted"} THEN None ELSE url[c]]

Log == INSTANCE RoomLog WITH
         Clients <- Conns, Feeds <- Conns, Rooms <- Rooms, Messages <- Message,
         None <- None, home <- url, log <- fanned, room <- Entered, seen <- seen

\* A room's clients read the logs of its subscribers: of each, a client is shown,
\* from its join on, the next message and no other, whoever else fans out and
\* whichever writes fail (RoomLog; enqueueToRoom, writePump).
ImplementsRoomLog == Log!Spec

\* A client never sees live what a later reader of the history will not: an
\* event is stored before it is fanned out, except when LPush failed or LTrim
\* has cut the list.
SeenIsStored ==
  \A w \in Conns : Len(history[url[w]]) < HistoryCap =>
    \A i \in 1 .. Len(fanned[w]) :
      LET m == fanned[w][i] IN
      IsHistoryType(m.kind) => m \in lost \cup ToSet(history[url[w]])

\* An event waiting for the registered subscriber of a room reaches every member
\* that stays connected and keeps up.
QueuedIsDelivered ==
  \A c \in Conns, w \in Conns :
    (inbox[w] # <<>> /\ roomSubs[url[w]] = w /\ c \in rooms[url[w]])
      ~> \/ inbox[w] = <<>> /\ work[w] = <<>> /\ todo[w] = {} /\ send[c] = <<>>
         \/ c \notin rooms[url[c]] \/ closed[c] \/ writer[c] = "ended" \/ crashed

\* "Slow clients are isolated.": a client that does not keep up costs the others
\* nothing, and certainly not the process.
SlowClientIsIsolated == ~crashed
=============================================================================
