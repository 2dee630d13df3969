------------------------- MODULE RoomDelivery_proofs -------------------------
(***************************************************************************)
(* No gap in what a client receives, and no event fanned out that was not  *)
(* stored, for any number of connections, rooms and events and any sizes   *)
(* of the queues and the history.  The composition keeps every property of *)
(* the subscription protocol (its steps are steps of RoomSubscription).    *)
(* DInv is inductive: lemmas about sequences, then for each of its three   *)
(* parts (types, history, queues) one lemma per action or kind of action,  *)
(* then the theorems.                                                      *)
(***************************************************************************)
EXTENDS RoomDelivery, RoomSubscription_proofs, SequenceTheorems

\* A subscriber handles one message at a time, and hands one out before it takes
\* the next.
OneAtATime ==
  \A w \in Conns : Len(work[w]) <= 1 /\ (todo[w] # {} => work[w] = <<>>)

\* m is safe: stored, or known to be lost, or the history of r has been cut.
Kept(r, m) ==
  IsHistoryType(m.kind) /\ Len(history[r]) < HistoryCap => m \in lost \cup ToSet(history[r])

\* Every message fanned out, or about to be, is safe.
AllKept ==
  \A w \in Conns :
    /\ \A i \in 1 .. Len(fanned[w]) : Kept(url[w], fanned[w][i])
    /\ \A i \in 1 .. Len(work[w]) : Kept(url[w], work[w][i])

\* enqueueToRoom only reaches members: nobody leaves while it holds roomsLock.
Reached == \A w \in Conns : todo[w] \subseteq rooms[url[w]]

\* Before a client is a member nothing was queued for it; its writePump starts later.
NotYet ==
  \A c \in Conns :
    /\ handler[c] \in {"new", "accepted"} => send[c] = <<>> /\ ~closed[c]
    /\ handler[c] \in {"new", "accepted", "joined"} => writer[c] = "none"

\* Nothing is queued or written that was not fanned out, and what is being handed
\* out is news to those who have still to get it.
Placed(c) ==
  /\ \A w \in Conns : seen[c][w] <= Len(fanned[w])
  /\ \A i \in 1 .. Len(send[c]) : send[c][i].at <= Len(fanned[send[c][i].feed])
  /\ \A w \in Conns : c \in todo[w] =>
       /\ seen[c][w] < Len(fanned[w])
       /\ \A i \in 1 .. Len(send[c]) : send[c][i].feed = w => send[c][i].at < Len(fanned[w])

\* A queue holds no more than enqueueToRoom offered; a member that is closed was
\* offered more than fits; a panic needs such a member.
Cut ==
  /\ \A c \in Conns : Len(send[c]) <= offered[c]
  /\ \A c \in Conns : closed[c] /\ c \in rooms[url[c]] => offered[c] > SendCap
  /\ crashed => \E c \in Conns : closed[c] /\ c \in rooms[url[c]]

QueueInv ==
  /\ Reached
  /\ NotYet
  /\ \A c \in Conns : Placed(c)
  /\ NoGap
  /\ Cut

DInv ==
  /\ IInv
  /\ DTypeOK
  /\ OneAtATime
  /\ AllKept
  /\ QueueInv

-----------------------------------------------------------------------------
(* Sequences.                                                              *)

\* A sequence of one is its head.
LEMMA OneIsHead ==
  ASSUME NEW S, NEW s \in Seq(S), s # <<>>, Len(s) <= 1
  PROVE  s = <<Head(s)>> /\ Head(s) \in S
<1>0. Len(s) \in Nat \ {0}
  BY LenProperties, EmptySeq
<1>1. Len(s) = 1
  BY <1>0
<1>2. Head(s) = s[1] /\ Head(s) \in S
  BY HeadTailProperties
<1>3. <<Head(s)>> \in Seq(S) /\ Len(<<Head(s)>>) = 1 /\ <<Head(s)>>[1] = Head(s)
  BY <1>2
<1>4. s = <<Head(s)>>
  BY <1>1, <1>2, <1>3, SeqEqual
<1> QED
  BY <1>2, <1>4

\* An element of a concatenation is an element of one of its parts.
LEMMA ConcatElement ==
  ASSUME NEW S, NEW s \in Seq(S), NEW t \in Seq(S), NEW i \in 1 .. Len(s \o t)
  PROVE  \/ i \in 1 .. Len(s) /\ (s \o t)[i] = s[i]
         \/ i - Len(s) \in 1 .. Len(t) /\ (s \o t)[i] = t[i - Len(s)]
<1>1. /\ Len(s \o t) = Len(s) + Len(t)
      /\ \A j \in 1 .. Len(s) + Len(t) :
           (s \o t)[j] = IF j <= Len(s) THEN s[j] ELSE t[j - Len(s)]
  BY ConcatProperties
<1>2. Len(s) \in Nat /\ Len(t) \in Nat
  BY LenProperties
<1>3. i \in 1 .. Len(s) + Len(t)
  BY <1>1
<1> QED
  BY <1>1, <1>2, <1>3

\* LPush puts m in front and keeps the rest.
LEMMA PushKeeps ==
  ASSUME NEW h \in Seq(Message), NEW m \in Message
  PROVE  /\ <<m>> \o h \in Seq(Message) /\ Len(<<m>> \o h) = Len(h) + 1
         /\ m \in ToSet(<<m>> \o h)
         /\ ToSet(h) \subseteq ToSet(<<m>> \o h)
<1> DEFINE pushed == <<m>> \o h
<1>1. <<m>> \in Seq(Message) /\ Len(<<m>>) = 1 /\ <<m>>[1] = m
  OBVIOUS
<1>2. Len(h) \in Nat
  BY LenProperties
<1>3. /\ pushed \in Seq(Message)
      /\ Len(pushed) = 1 + Len(h)
      /\ \A i \in 1 .. 1 + Len(h) :
           pushed[i] = IF i <= 1 THEN <<m>>[i] ELSE h[i - 1]
  BY <1>1, ConcatProperties
<1> HIDE DEF pushed
<1>4. DOMAIN pushed = 1 .. Len(h) + 1 /\ DOMAIN h = 1 .. Len(h)
  BY <1>2, <1>3, LenProperties
<1>5. m \in ToSet(pushed)
  <2>1. 1 \in 1 .. Len(h) + 1 /\ pushed[1] = m
    BY <1>1, <1>2, <1>3
  <2> QED
    BY <1>4, <2>1 DEF ToSet
<1>6. ASSUME NEW i \in 1 .. Len(h) PROVE h[i] \in ToSet(pushed)
  <2>1. i + 1 \in 1 .. 1 + Len(h) /\ ~(i + 1 <= 1) /\ (i + 1) - 1 = i
    BY <1>2
  <2>2. pushed[i + 1] = h[i]
    BY <1>3, <2>1
  <2>3. i + 1 \in 1 .. Len(h) + 1
    BY <1>2
  <2> QED
    BY <1>4, <2>2, <2>3 DEF ToSet
<1>7. ToSet(h) \subseteq ToSet(pushed)
  BY <1>4, <1>6 DEF ToSet
<1> QED
  BY <1>2, <1>3, <1>5, <1>7 DEF pushed

\* LTrim cuts a list that is too long and leaves any other alone.
LEMMA TrimKeeps ==
  ASSUME NEW h \in Seq(Message)
  PROVE  /\ Trimmed(h) \in Seq(Message)
         /\ Len(Trimmed(h)) < HistoryCap => Trimmed(h) = h
<1> DEFINE n == IF Len(h) < HistoryCap THEN Len(h) ELSE HistoryCap
<1>1. Len(h) \in Nat /\ n \in Nat /\ n <= Len(h)
  BY LenProperties, DeliveryAssumption
<1>2. Trimmed(h) = SubSeq(h, 1, n)
  BY DEF Trimmed
<1>3. n < HistoryCap => n = Len(h)
  BY <1>1, DeliveryAssumption
<1> HIDE DEF n
<1>4. \A i \in 1 .. n : h[i] \in Message
  BY <1>1, ElementOfSeq
<1>5. SubSeq(h, 1, n) \in Seq(Message) /\ Len(SubSeq(h, 1, n)) = IF 1 <= n THEN n - 1 + 1 ELSE 0
  BY <1>1, <1>4, SubSeqProperties
<1>6. Len(SubSeq(h, 1, n)) = n
  BY <1>1, <1>5
<1>7. n = Len(h) => SubSeq(h, 1, n) = h
  BY SubSeqFull
<1> QED
  BY <1>2, <1>3, <1>5, <1>6, <1>7

\* A queue that loses its head, or gains a last element.
LEMMA TailFacts ==
  ASSUME NEW S, NEW s \in Seq(S), s # <<>>
  PROVE  /\ Len(s) \in Nat /\ Len(s) >= 1
         /\ Head(s) = s[1] /\ Head(s) \in S
         /\ Tail(s) \in Seq(S) /\ Len(Tail(s)) = Len(s) - 1
         /\ \A i \in 1 .. Len(s) - 1 : Tail(s)[i] = s[i + 1]
<1>1. Len(s) \in Nat \ {0}
  BY LenProperties, EmptySeq
<1>2. Head(s) = s[1] /\ Head(s) \in S /\ Tail(s) \in Seq(S)
  BY HeadTailProperties
<1>3. Len(Tail(s)) = Len(s) - 1 /\ \A i \in 1 .. Len(s) - 1 : Tail(s)[i] = s[i + 1]
  BY HeadTailProperties
<1> QED
  BY <1>1, <1>2, <1>3

LEMMA AppendFacts ==
  ASSUME NEW S, NEW s \in Seq(S), NEW e \in S
  PROVE  /\ Len(s) \in Nat
         /\ Append(s, e) \in Seq(S) /\ Len(Append(s, e)) = Len(s) + 1
         /\ \A i \in 1 .. Len(s) : Append(s, e)[i] = s[i]
         /\ Append(s, e)[Len(s) + 1] = e
  BY LenProperties, AppendProperties

\* One message more.
LEMMA OneMore ==
  ASSUME NEW S, NEW s \in Seq(S), NEW u \in Seq(S), u # <<>>, Len(u) <= 1
  PROVE  Len(s \o u) = Len(s) + 1 /\ Len(s) \in Nat
<1>1. Len(u) \in Nat \ {0} /\ Len(s) \in Nat
  BY LenProperties, EmptySeq
<1>2. Len(s \o u) = Len(s) + Len(u)
  BY ConcatProperties
<1> QED
  BY <1>1, <1>2

-----------------------------------------------------------------------------
(* The composition takes RoomSubscription's steps.                         *)

\* Every step of the composition is a step of the subscription protocol or
\* leaves its state alone.
LEMMA DNextIsNext == ASSUME [DNext]_allVars PROVE [Next]_vars
<1>1. ASSUME NEW c \in Conns, Connection(c) PROVE [Next]_vars
  BY <1>1 DEF Connection, DAccept, DLeave, DJoin, DStartPumps, DStopClose, Unaffected,
     Next, Handle, TearDown, RunSubscription
<1>2. ASSUME NEW c \in Conns, Talk(c) PROVE UNCHANGED vars
  BY <1>2 DEF Talk, SendEvent, AnnounceJoin, CloseClient, AnnounceLeave
<1>3. ASSUME NEW c \in Conns, Subscriber(c) PROVE [Next]_vars
  BY <1>3 DEF Subscriber, Consume, RedisSubscribed, DGiveUp, DFinish, TakeLive, LPush,
     LPushFails, LTrim, FanOut, Enqueue, EnqueuePanics, Next, RunSubscription
<1>4. ASSUME NEW c \in Conns, WritePump(c) PROVE UNCHANGED vars
  BY <1>4 DEF WritePump, Write, WriteFails, WriterCloses
<1>5. CASE UNCHANGED allVars
  BY <1>5 DEF allVars
<1> QED
  BY <1>1, <1>2, <1>3, <1>4, <1>5 DEF DNext

\* So whatever is proved of the protocol holds in the composition.
THEOREM DeliveryFollowsTheProtocol == DSpec => Spec
<1>1. DInit => Init
  BY DEF DInit
<1>2. [DNext]_allVars => [Next]_vars
  BY DNextIsNext
<1> QED
  BY <1>1, <1>2, PTL DEF DSpec, Spec

-----------------------------------------------------------------------------
(* Initially nothing has been sent, stored or received.                    *)

LEMMA InitDInv == DInit => DInv
<1> SUFFICES ASSUME DInit PROVE DInv
  OBVIOUS
<1>1. IInv /\ url \in [Conns -> Rooms] /\ rooms = [r \in Rooms |-> {}]
  BY InitIInv DEF DInit, Init
<1>2. DTypeOK
  <2>1. <<>> \in Seq(Message) /\ <<>> \in Seq(Entry) /\ Len(<<>>) = 0
    OBVIOUS
  <2>2. TypeOK
    BY <1>1 DEF IInv
  <2>3. /\ inbox \in [Conns -> Seq(Message)] /\ work \in [Conns -> Seq(Message)]
        /\ send \in [Conns -> Seq(Entry)] /\ fanned \in [Conns -> Seq(Message)]
        /\ \A c \in Conns : Len(send[c]) <= SendCap
        /\ history \in [Rooms -> Seq(Message)]
    BY <2>1, DeliveryAssumption DEF DInit
  <2>4. events \in [Conns -> 0 .. MaxEvents] /\ offered \in [Conns -> Nat]
        /\ seen \in [Conns -> [Conns -> Nat]]
    BY DeliveryAssumption DEF DInit
  <2> QED
    BY <2>2, <2>3, <2>4 DEF DInit, DTypeOK
<1>3. OneAtATime /\ AllKept
  BY DEF DInit, OneAtATime, AllKept
<1>4. Reached /\ NotYet
  BY DEF DInit, Reached, NotYet
<1>5. \A c \in Conns : Placed(c)
  BY DEF DInit, Placed
<1>6. NoGap
  BY <1>1 DEF DInit, NoGap, InOrder
<1>7. Cut
  BY DEF DInit, Cut
<1> QED
  BY <1>1, <1>2, <1>3, <1>4, <1>5, <1>6, <1>7 DEF DInv, QueueInv

-----------------------------------------------------------------------------
(* Types and bounds.                                                       *)

\* A publication appends to what is on its way, and moves nothing else.
LEMMA PublishTyped ==
  ASSUME DTypeOK, NEW r, NEW m \in Message, Publish(r, m)
  PROVE  inbox' \in [Conns -> Seq(Message)]
<1>1. ASSUME NEW w \in Conns PROVE Append(inbox[w], m) \in Seq(Message)
  BY AppendProperties DEF DTypeOK
<1> QED
  BY <1>1 DEF Publish, DTypeOK

\* What is left of it when a PubSub is closed.
LEMMA UnsubscribedTyped ==
  ASSUME DTypeOK, NEW w \in Conns, Unsubscribed(w)
  PROVE  inbox' \in [Conns -> Seq(Message)] /\ live' \in SUBSET Conns
<1>1. PICK k \in 0 .. Len(inbox[w]) :
        inbox' = [inbox EXCEPT ![w] = SubSeq(@, 1, k)]
  BY DEF Unsubscribed
<1>2. inbox[w] \in Seq(Message) /\ Len(inbox[w]) \in Nat
  BY LenProperties DEF DTypeOK
<1>3. \A i \in 1 .. k : inbox[w][i] \in Message
  BY <1>2, ElementOfSeq
<1>4. SubSeq(inbox[w], 1, k) \in Seq(Message)
  BY <1>2, <1>3, SubSeqProperties
<1> QED
  BY <1>1, <1>4 DEF DTypeOK, Unsubscribed

\* Taking the next message.
LEMMA TakeTyped ==
  ASSUME DTypeOK, NEW w \in Conns, Receiving(w), Take(w)
  PROVE  /\ inbox' \in [Conns -> Seq(Message)] /\ work' \in [Conns -> Seq(Message)]
         /\ Head(inbox[w]) \in Message
         /\ work'[w] = <<Head(inbox[w])>>
         /\ \A v \in Conns \ {w} : work'[v] = work[v]
<1>1. inbox[w] \in Seq(Message) /\ inbox[w] # <<>>
  BY DEF DTypeOK, Receiving
<1>2. Head(inbox[w]) \in Message /\ Tail(inbox[w]) \in Seq(Message)
  BY <1>1, TailFacts
<1>3. <<Head(inbox[w])>> \in Seq(Message)
  BY <1>2
<1> QED
  BY <1>2, <1>3 DEF DTypeOK, Take

\* The connections' and readPumps' steps.
LEMMA ConnectionTyped ==
  ASSUME DTypeOK, TypeOK', NEW c \in Conns, Connection(c)
  PROVE  DTypeOK'
<1> USE DEF deliveryVars, redisVars, clientVars, queueVars, writeVars, talkVars, fanVars
<1>1. CASE DAccept(c) \/ DLeave(c) \/ Unaffected(c)
  BY <1>1 DEF DTypeOK, DAccept, DLeave, Unaffected
<1>2. CASE DJoin(c)
  <2>1. [w \in Conns |-> Len(fanned[w])] \in [Conns -> Nat]
    BY LenProperties DEF DTypeOK
  <2> QED
    BY <1>2, <2>1 DEF DTypeOK, DJoin
<1>3. CASE DStartPumps(c)
  BY <1>3 DEF DTypeOK, DStartPumps
<1>4. CASE DStopClose(c)
  <2>1. inbox' \in [Conns -> Seq(Message)] /\ live' \in SUBSET Conns
    <3>1. CASE taken[c] = None
      BY <1>4, <3>1 DEF DTypeOK, DStopClose
    <3>2. CASE taken[c] # None
      BY <1>4, <3>2, UnsubscribedTyped DEF DTypeOK, TypeOK, DStopClose
    <3> QED
      BY <3>1, <3>2
  <2>2. UNCHANGED <<history, lost, clientVars, talkVars, fanVars, crashed>>
    BY <1>4 DEF DStopClose, Unsubscribed
  <2> QED
    BY <2>1, <2>2 DEF DTypeOK
<1> QED
  BY <1>1, <1>2, <1>3, <1>4 DEF Connection

\* Publishing, and closing one's own client.
LEMMA TalkTyped ==
  ASSUME DTypeOK, TypeOK', NEW c \in Conns, Talk(c)
  PROVE  DTypeOK'
<1> USE DEF deliveryVars, redisVars, clientVars, queueVars, writeVars, talkVars, fanVars
<1>1. ASSUME NEW kind \in {"chat", "typing"}, SendEvent(c, kind) PROVE DTypeOK'
  <2>1. [kind |-> kind, by |-> c, n |-> events[c] + 1] \in Message
    BY <1>1, DeliveryAssumption DEF DTypeOK, Message, Kinds, SendEvent
  <2>2. inbox' \in [Conns -> Seq(Message)]
    BY <1>1, <2>1, PublishTyped DEF SendEvent
  <2>3. events' \in [Conns -> 0 .. MaxEvents]
    BY <1>1, DeliveryAssumption DEF DTypeOK, SendEvent
  <2> QED
    BY <1>1, <2>2, <2>3 DEF DTypeOK, Publish, SendEvent
<1>2. CASE AnnounceJoin(c)
  <2>1. [kind |-> "join", by |-> c, n |-> 0] \in Message
    BY DeliveryAssumption DEF Message, Kinds
  <2>2. inbox' \in [Conns -> Seq(Message)]
    BY <1>2, <2>1, PublishTyped DEF AnnounceJoin
  <2> QED
    BY <1>2, <2>2 DEF DTypeOK, Publish, AnnounceJoin
<1>3. CASE CloseClient(c)
  BY <1>3 DEF DTypeOK, CloseClient
<1>4. CASE AnnounceLeave(c)
  <2>1. [kind |-> "leave", by |-> c, n |-> 0] \in Message
    BY DeliveryAssumption DEF Message, Kinds
  <2>2. inbox' \in [Conns -> Seq(Message)]
    BY <1>4, <2>1, PublishTyped DEF AnnounceLeave
  <2> QED
    BY <1>4, <2>2 DEF DTypeOK, Publish, AnnounceLeave
<1> QED
  BY <1>1, <1>2, <1>3, <1>4 DEF Talk

\* The subscriber up to its fan-out.
LEMMA StoringTyped ==
  ASSUME DTypeOK, TypeOK', NEW w \in Conns,
         \/ RedisSubscribed(w) \/ DGiveUp(w) \/ DFinish(w)
         \/ TakeLive(w) \/ LPush(w) \/ LPushFails(w) \/ LTrim(w)
  PROVE  DTypeOK'
<1> USE DEF deliveryVars, redisVars, clientVars, queueVars, writeVars, talkVars, fanVars
<1>u. url[w] \in Rooms /\ history[url[w]] \in Seq(Message)
  BY DEF DTypeOK, TypeOK
<1>1. CASE RedisSubscribed(w) \/ DFinish(w)
  BY <1>1 DEF DTypeOK, RedisSubscribed, DFinish
<1>2. CASE DGiveUp(w)
  <2>1. inbox' \in [Conns -> Seq(Message)] /\ live' \in SUBSET Conns
    BY <1>2, UnsubscribedTyped DEF DGiveUp
  <2> QED
    BY <1>2, <2>1 DEF DTypeOK, DGiveUp, Unsubscribed
<1>3. CASE TakeLive(w)
  <2>1. inbox' \in [Conns -> Seq(Message)] /\ work' \in [Conns -> Seq(Message)]
    BY <1>3, TakeTyped DEF TakeLive
  <2> QED
    BY <1>3, <2>1 DEF DTypeOK, TakeLive
<1>4. CASE LPush(w)
  <2>1. /\ inbox' \in [Conns -> Seq(Message)] /\ work' \in [Conns -> Seq(Message)]
        /\ Head(inbox[w]) \in Message
    BY <1>4, TakeTyped DEF LPush
  <2>2. <<Head(inbox[w])>> \o history[url[w]] \in Seq(Message)
    BY <1>u, <2>1, PushKeeps
  <2> QED
    BY <1>4, <1>u, <2>1, <2>2 DEF DTypeOK, LPush
<1>5. CASE LPushFails(w)
  <2>1. /\ inbox' \in [Conns -> Seq(Message)] /\ work' \in [Conns -> Seq(Message)]
        /\ Head(inbox[w]) \in Message
    BY <1>5, TakeTyped DEF LPushFails
  <2> QED
    BY <1>5, <2>1 DEF DTypeOK, LPushFails
<1>6. CASE LTrim(w)
  <2>1. Trimmed(history[url[w]]) \in Seq(Message)
    BY <1>u, TrimKeeps
  <2>2. history' \in [Rooms -> Seq(Message)]
    BY <1>6, <2>1 DEF DTypeOK, LTrim
  <2> QED
    BY <1>6, <2>2 DEF DTypeOK, LTrim
<1> QED
  BY <1>1, <1>2, <1>3, <1>4, <1>5, <1>6

\* enqueueToRoom.
LEMMA FanningTyped ==
  ASSUME DTypeOK, TypeOK', NEW w \in Conns,
         \/ FanOut(w)
         \/ \E c \in Conns : Enqueue(w, c) \/ EnqueuePanics(w, c)
  PROVE  DTypeOK'
<1> USE DEF deliveryVars, redisVars, clientVars, queueVars, writeVars, talkVars, fanVars
<1>1. CASE FanOut(w)
  <2>1. fanned[w] \o work[w] \in Seq(Message)
    BY ConcatProperties DEF DTypeOK
  <2>2. <<>> \in Seq(Message)
    OBVIOUS
  <2>3. rooms[url[w]] \in SUBSET Conns
    BY DEF DTypeOK, TypeOK
  <2>4. /\ fanned' \in [Conns -> Seq(Message)] /\ work' \in [Conns -> Seq(Message)]
        /\ todo' \in [Conns -> SUBSET Conns]
    BY <1>1, <2>1, <2>2, <2>3 DEF FanOut, DTypeOK
  <2> QED
    BY <1>1, <2>4 DEF DTypeOK, FanOut
<1>2. ASSUME NEW c \in Conns, Enqueue(w, c) PROVE DTypeOK'
  <2> DEFINE e == [feed |-> w, at |-> Len(fanned[w])]
  <2>1. e \in Entry /\ send[c] \in Seq(Entry)
    BY LenProperties DEF DTypeOK, Entry
  <2> HIDE DEF e
  <2>2. /\ Append(send[c], e) \in Seq(Entry)
        /\ Len(send[c]) \in Nat /\ Len(Append(send[c], e)) = Len(send[c]) + 1
    BY <2>1, AppendFacts
  <2>c. closed' \in [Conns -> BOOLEAN]
    <3>1. closed' = [closed EXCEPT ![c] = TRUE] \/ UNCHANGED closed
      BY <1>2 DEF Enqueue
    <3> QED
      BY <3>1 DEF DTypeOK
  <2>3. todo' \in [Conns -> SUBSET Conns] /\ offered' \in [Conns -> Nat]
    <3>1. /\ todo' = [todo EXCEPT ![w] = @ \ {c}]
          /\ offered' = [offered EXCEPT ![c] = @ + 1]
      BY <1>2 DEF Enqueue
    <3> QED
      BY <3>1 DEF DTypeOK
  <2>4. ASSUME ~Full(c) PROVE Len(Append(send[c], e)) <= SendCap
    BY <2>2, <2>4, DeliveryAssumption DEF Full
  <2>5. send' \in [Conns -> Seq(Entry)] /\ \A d \in Conns : Len(send'[d]) <= SendCap
    <3>1. CASE Full(c)
      BY <1>2, <3>1 DEF DTypeOK, Enqueue
    <3>2. CASE ~Full(c)
      <4>1. send' = [send EXCEPT ![c] = Append(@, e)]
        BY <1>2, <3>2 DEF Enqueue, e
      <4> QED
        BY <2>2, <2>4, <3>2, <4>1 DEF DTypeOK
    <3> QED
      BY <3>1, <3>2
  <2>6. UNCHANGED <<redisVars, writeVars, talkVars, work, trimming, fanned, crashed>>
    BY <1>2 DEF Enqueue
  <2> QED
    BY <2>3, <2>c, <2>5, <2>6 DEF DTypeOK
<1>3. ASSUME NEW c \in Conns, EnqueuePanics(w, c) PROVE DTypeOK'
  BY <1>3 DEF DTypeOK, EnqueuePanics
<1> QED
  BY <1>1, <1>2, <1>3

\* A queue without its head is no longer than before.
LEMMA PoppedTyped ==
  ASSUME DTypeOK, NEW c \in Conns, send[c] # <<>>
  PROVE  /\ Tail(send[c]) \in Seq(Entry) /\ Len(Tail(send[c])) <= SendCap
         /\ Head(send[c]) \in Entry
<1>1. send[c] \in Seq(Entry) /\ Len(send[c]) <= SendCap
  BY DEF DTypeOK
<1>2. /\ Tail(send[c]) \in Seq(Entry) /\ Head(send[c]) \in Entry
      /\ Len(send[c]) \in Nat /\ Len(Tail(send[c])) = Len(send[c]) - 1
  BY <1>1, TailFacts
<1> QED
  BY <1>1, <1>2, DeliveryAssumption

LEMMA WritePumpTyped ==
  ASSUME DTypeOK, TypeOK', NEW c \in Conns, WritePump(c)
  PROVE  DTypeOK'
<1> USE DEF deliveryVars, redisVars, clientVars, queueVars, writeVars, talkVars, fanVars
<1>1. CASE Write(c)
  <2>1. /\ Tail(send[c]) \in Seq(Entry) /\ Len(Tail(send[c])) <= SendCap
        /\ Head(send[c]).feed \in Conns /\ Head(send[c]).at \in Nat
    BY <1>1, PoppedTyped DEF Write, Entry
  <2>2. send' \in [Conns -> Seq(Entry)] /\ \A d \in Conns : Len(send'[d]) <= SendCap
    BY <1>1, <2>1 DEF DTypeOK, Write, WriteHead
  <2>3. seen' \in [Conns -> [Conns -> Nat]]
    BY <1>1, <2>1 DEF DTypeOK, Write, WriteHead
  <2> QED
    BY <1>1, <2>2, <2>3 DEF DTypeOK, Write
<1>2. CASE WriteFails(c)
  <2>1. send' \in [Conns -> Seq(Entry)] /\ \A d \in Conns : Len(send'[d]) <= SendCap
    <3>1. CASE send[c] = <<>>
      BY <1>2, <3>1 DEF DTypeOK, WriteFails
    <3>2. CASE send[c] # <<>>
      <4>1. Tail(send[c]) \in Seq(Entry) /\ Len(Tail(send[c])) <= SendCap
        BY <3>2, PoppedTyped
      <4>2. send' = [send EXCEPT ![c] = Tail(@)]
        BY <1>2, <3>2 DEF WriteFails
      <4> QED
        BY <4>1, <4>2 DEF DTypeOK
    <3> QED
      BY <3>1, <3>2
  <2> QED
    BY <1>2, <2>1 DEF DTypeOK, WriteFails
<1>3. CASE WriterCloses(c)
  BY <1>3 DEF DTypeOK, WriterCloses
<1> QED
  BY <1>1, <1>2, <1>3 DEF WritePump

LEMMA NextTyped == ASSUME DTypeOK, TypeOK', [DNext]_allVars PROVE DTypeOK'
<1>1. CASE UNCHANGED allVars
  BY <1>1 DEF DTypeOK, allVars, deliveryVars, redisVars, clientVars, queueVars, writeVars, talkVars, fanVars
<1>2. CASE DNext
  BY <1>2, ConnectionTyped, TalkTyped, StoringTyped, FanningTyped, WritePumpTyped
     DEF DNext, Subscriber, Consume
<1> QED
  BY <1>1, <1>2

-----------------------------------------------------------------------------
(* The history.                                                            *)

LEMMA OneLong == ASSUME NEW m PROVE Len(<<m>>) <= 1
  OBVIOUS

LEMMA NextOneAtATime ==
  ASSUME DTypeOK, OneAtATime, [DNext]_allVars
  PROVE  OneAtATime'
<1>1. ASSUME NEW w \in Conns, Receiving(w), Take(w), UNCHANGED todo PROVE OneAtATime'
  <2>1. Len(work'[w]) <= 1 /\ todo'[w] = {} /\ \A v \in Conns \ {w} : work'[v] = work[v]
    BY <1>1, TakeTyped, OneLong DEF Receiving
  <2>2. \A v \in Conns : todo'[v] = todo[v]
    BY <1>1
  <2>3. ASSUME NEW v \in Conns PROVE Len(work'[v]) <= 1 /\ (todo'[v] # {} => work'[v] = <<>>)
    <3>1. CASE v = w
      BY <2>1, <3>1
    <3>2. CASE v # w
      BY <2>1, <2>2, <3>2 DEF OneAtATime
    <3> QED
      BY <3>1, <3>2
  <2> QED
    BY <2>3 DEF OneAtATime
<1>2. ASSUME NEW w \in Conns, FanOut(w) PROVE OneAtATime'
  <2>1. /\ work' = [work EXCEPT ![w] = <<>>]
        /\ \A v \in Conns \ {w} : todo'[v] = todo[v]
    BY <1>2 DEF FanOut, DTypeOK
  <2>2. work'[w] = <<>> /\ Len(<<>>) = 0 /\ \A v \in Conns \ {w} : work'[v] = work[v]
    BY <2>1 DEF DTypeOK
  <2> QED
    BY <2>1, <2>2 DEF OneAtATime
<1>3. ASSUME NEW w \in Conns, NEW c \in Conns, Enqueue(w, c) PROVE OneAtATime'
  <2>1. UNCHANGED work /\ \A v \in Conns : todo'[v] \subseteq todo[v]
    BY <1>3 DEF Enqueue, DTypeOK
  <2> QED
    BY <2>1 DEF OneAtATime
<1>4. CASE UNCHANGED <<work, todo>>
  BY <1>4 DEF OneAtATime
<1>5. ASSUME NEW c \in Conns, Connection(c) \/ Talk(c) \/ WritePump(c)
      PROVE  UNCHANGED <<work, todo>>
  BY <1>5 DEF Connection, DAccept, DLeave, DJoin, DStartPumps, DStopClose, Unaffected,
     Talk, SendEvent, AnnounceJoin, CloseClient, AnnounceLeave, WritePump, Write,
     WriteFails, WriterCloses, deliveryVars, fanVars
<1>6. ASSUME NEW w \in Conns, Subscriber(w) PROVE OneAtATime'
  <2>1. CASE RedisSubscribed(w) \/ DGiveUp(w) \/ DFinish(w) \/ LTrim(w)
    BY <1>4, <2>1 DEF RedisSubscribed, DGiveUp, DFinish, LTrim, deliveryVars, fanVars
  <2>2. CASE TakeLive(w) \/ LPush(w) \/ LPushFails(w)
    BY <1>1, <2>2 DEF TakeLive, LPush, LPushFails
  <2>3. ASSUME NEW c \in Conns, EnqueuePanics(w, c) PROVE OneAtATime'
    BY <1>4, <2>3 DEF EnqueuePanics, fanVars
  <2> QED
    BY <1>2, <1>3, <1>6, <2>1, <2>2, <2>3 DEF Subscriber, Consume
<1>7. CASE UNCHANGED allVars
  BY <1>4, <1>7 DEF allVars, deliveryVars, fanVars
<1> QED
  BY <1>4, <1>5, <1>6, <1>7 DEF DNext

\* What was safe stays safe when lists are only pushed to, or trimmed when full.
LEMMA KeptStays ==
  ASSUME NEW r, NEW m, Kept(r, m), lost \subseteq lost',
         Len(history'[r]) < HistoryCap =>
           Len(history[r]) < HistoryCap /\ ToSet(history[r]) \subseteq ToSet(history'[r])
  PROVE  Kept(r, m)'
  BY DEF Kept

\* Taking a message that is safe by then.
LEMMA TakenIsKept ==
  ASSUME DTypeOK, AllKept, NEW w \in Conns, NEW m, UNCHANGED <<url, fanned>>,
         work'[w] = <<m>>, \A v \in Conns \ {w} : work'[v] = work[v],
         Kept(url[w], m)',
         \A v \in Conns : \A x : Kept(url[v], x) => Kept(url[v], x)'
  PROVE  AllKept'
<1>1. Len(<<m>>) = 1 /\ <<m>>[1] = m
  OBVIOUS
<1>2. ASSUME NEW i \in 1 .. Len(work'[w]) PROVE Kept(url[w], work[w][i])'
  BY <1>1, <1>2
<1>3. ASSUME NEW v \in Conns \ {w}, NEW i \in 1 .. Len(work'[v]) PROVE Kept(url[v], work[v][i])'
  BY <1>3 DEF AllKept
<1>4. ASSUME NEW v \in Conns, NEW i \in 1 .. Len(fanned'[v]) PROVE Kept(url[v], fanned[v][i])'
  BY <1>4 DEF AllKept
<1> QED
  BY <1>2, <1>3, <1>4 DEF AllKept

\* The subscriber's calls to Redis.
LEMMA StoringKept ==
  ASSUME DTypeOK, AllKept, NEW w \in Conns,
         TakeLive(w) \/ LPush(w) \/ LPushFails(w) \/ LTrim(w)
  PROVE  AllKept'
<1>m. PICK m : m = Head(inbox[w])
  OBVIOUS
<1>h. PICK h : h = history[url[w]]
  OBVIOUS
<1>u. url[w] \in Rooms /\ h \in Seq(Message) /\ history \in [Rooms -> Seq(Message)]
  BY <1>h DEF DTypeOK, TypeOK
<1>v. \A v \in Conns : url[v] \in Rooms
  BY DEF DTypeOK, TypeOK
<1>1. CASE TakeLive(w)
  <2>1. work'[w] = <<m>> /\ \A v \in Conns \ {w} : work'[v] = work[v]
    BY <1>1, <1>m, TakeTyped DEF TakeLive
  <2>2. UNCHANGED <<url, fanned, history, lost>> /\ ~IsHistoryType(m.kind)
    BY <1>1, <1>m DEF TakeLive, vars
  <2>3. Kept(url[w], m)' /\ \A v \in Conns : \A x : Kept(url[v], x) => Kept(url[v], x)'
    BY <2>2 DEF Kept
  <2> QED
    BY <2>1, <2>2, <2>3, TakenIsKept
<1>2. CASE LPush(w)
  <2>1. /\ work'[w] = <<m>> /\ \A v \in Conns \ {w} : work'[v] = work[v]
        /\ m \in Message
    BY <1>2, <1>m, TakeTyped DEF LPush
  <2>2. UNCHANGED <<url, fanned, lost>> /\ history' = [history EXCEPT ![url[w]] = <<m>> \o @]
    BY <1>2, <1>m DEF LPush, vars
  <2>3. /\ Len(<<m>> \o h) = Len(h) + 1 /\ Len(h) \in Nat
        /\ m \in ToSet(<<m>> \o h) /\ ToSet(h) \subseteq ToSet(<<m>> \o h)
    BY <1>u, <2>1, PushKeeps, LenProperties
  <2>4. history'[url[w]] = <<m>> \o h /\ \A r \in Rooms \ {url[w]} : history'[r] = history[r]
    BY <1>h, <1>u, <2>2
  <2>5. ASSUME NEW r \in Rooms
        PROVE  Len(history'[r]) < HistoryCap =>
                 Len(history[r]) < HistoryCap /\ ToSet(history[r]) \subseteq ToSet(history'[r])
    <3>1. CASE r = url[w]
      <4>1. history'[r] = <<m>> \o h /\ history[r] = h
        BY <1>h, <2>4, <3>1
      <4>2. Len(<<m>> \o h) < HistoryCap => Len(h) < HistoryCap
        BY <2>3, DeliveryAssumption
      <4> QED
        BY <2>3, <4>1, <4>2
    <3>2. CASE r # url[w]
      BY <2>4, <3>2
    <3> QED
      BY <3>1, <3>2
  <2>6. Kept(url[w], m)'
    BY <2>2, <2>3, <2>4 DEF Kept
  <2>7. \A v \in Conns : \A x : Kept(url[v], x) => Kept(url[v], x)'
    BY <1>v, <2>2, <2>5, KeptStays DEF Kept
  <2> QED
    BY <2>1, <2>2, <2>6, <2>7, TakenIsKept
<1>3. CASE LPushFails(w)
  <2>1. work'[w] = <<m>> /\ \A v \in Conns \ {w} : work'[v] = work[v]
    BY <1>3, <1>m, TakeTyped DEF LPushFails
  <2>2. UNCHANGED <<url, fanned, history>> /\ lost' = lost \cup {m}
    BY <1>3, <1>m DEF LPushFails, vars
  <2>3. Kept(url[w], m)' /\ \A v \in Conns : \A x : Kept(url[v], x) => Kept(url[v], x)'
    BY <2>2 DEF Kept
  <2> QED
    BY <2>1, <2>2, <2>3, TakenIsKept
<1>4. CASE LTrim(w)
  <2>1. UNCHANGED <<url, fanned, work, lost>>
    BY <1>4 DEF LTrim, vars
  <2>2. UNCHANGED history \/ history' = [history EXCEPT ![url[w]] = Trimmed(@)]
    BY <1>4 DEF LTrim
  <2>3. Len(Trimmed(h)) < HistoryCap => Trimmed(h) = h
    BY <1>u, TrimKeeps
  <2>4. ASSUME NEW r \in Rooms PROVE Len(history'[r]) < HistoryCap => history'[r] = history[r]
    BY <1>h, <1>u, <2>2, <2>3
  <2>5. \A v \in Conns : \A x : Kept(url[v], x) => Kept(url[v], x)'
    BY <1>v, <2>1, <2>4 DEF Kept
  <2> QED
    BY <2>1, <2>5 DEF AllKept, Kept
<1> QED
  BY <1>1, <1>2, <1>3, <1>4

\* The message at hand joins those fanned out.
LEMMA FanOutKept ==
  ASSUME DTypeOK, AllKept, NEW w \in Conns, FanOut(w)
  PROVE  AllKept'
<1>1. /\ work' = [work EXCEPT ![w] = <<>>]
      /\ fanned' = [fanned EXCEPT ![w] = @ \o work[w]]
      /\ UNCHANGED <<url, history, lost>>
  BY DEF FanOut, vars, redisVars
<1>2. /\ fanned[w] \in Seq(Message) /\ work[w] \in Seq(Message)
      /\ fanned \in [Conns -> Seq(Message)] /\ work \in [Conns -> Seq(Message)]
  BY DEF DTypeOK
<1>3. ASSUME NEW v \in Conns, NEW i \in 1 .. Len(fanned'[v]) PROVE Kept(url[v], fanned'[v][i])
  <2>1. CASE v # w
    BY <1>1, <1>2, <2>1 DEF AllKept
  <2>2. CASE v = w
    <3>1. fanned'[w] = fanned[w] \o work[w]
      BY <1>1, <1>2
    <3>2. \/ i \in 1 .. Len(fanned[w]) /\ fanned'[w][i] = fanned[w][i]
          \/ i - Len(fanned[w]) \in 1 .. Len(work[w])
             /\ fanned'[w][i] = work[w][i - Len(fanned[w])]
      BY <1>2, <2>2, <3>1, ConcatElement
    <3> QED
      BY <2>2, <3>2 DEF AllKept
  <2> QED
    BY <2>1, <2>2
<1>4. ASSUME NEW v \in Conns, NEW i \in 1 .. Len(work'[v]) PROVE Kept(url[v], work'[v][i])
  BY <1>1, <1>2 DEF AllKept
<1> QED
  BY <1>1, <1>3, <1>4 DEF AllKept, Kept

LEMMA NextKept ==
  ASSUME DTypeOK, AllKept, [DNext]_allVars
  PROVE  AllKept'
<1>1. CASE UNCHANGED <<url, work, fanned, history, lost>>
  BY <1>1 DEF AllKept, Kept
<1>2. ASSUME NEW c \in Conns, Connection(c) PROVE UNCHANGED <<url, work, fanned, history, lost>>
  BY <1>2 DEF Connection, DAccept, DLeave, DJoin, DStartPumps, DStopClose, Unaffected,
     Accept, Join, StartPumps, Leave, StopClose, KeepSubscription, StartSubscription,
     StopNotNeeded, StopCheck, StopClear, Subscribe, Register, Unsubscribed, connVars,
     deliveryVars, redisVars, fanVars
<1>3. ASSUME NEW c \in Conns, Talk(c) \/ WritePump(c)
      PROVE  UNCHANGED <<url, work, fanned, history, lost>>
  BY <1>3 DEF Talk, SendEvent, AnnounceJoin, CloseClient, AnnounceLeave, Publish, WritePump,
     Write, WriteFails, WriterCloses, vars, redisVars, fanVars
<1>4. ASSUME NEW w \in Conns, Subscriber(w) PROVE AllKept'
  <2>1. CASE RedisSubscribed(w) \/ DGiveUp(w) \/ DFinish(w)
    BY <1>1, <2>1 DEF RedisSubscribed, DGiveUp, DFinish, GiveUp, Finish, Unsubscribed,
       vars, connVars, deliveryVars, redisVars, fanVars
  <2>2. ASSUME NEW c \in Conns, Enqueue(w, c) \/ EnqueuePanics(w, c) PROVE AllKept'
    BY <1>1, <2>2 DEF Enqueue, EnqueuePanics, vars, redisVars, fanVars
  <2> QED
    BY <1>4, <2>1, <2>2, StoringKept, FanOutKept DEF Subscriber, Consume
<1>5. CASE UNCHANGED allVars
  BY <1>1, <1>5 DEF allVars, vars, deliveryVars, redisVars, fanVars
<1> QED
  BY <1>1, <1>2, <1>3, <1>4, <1>5 DEF DNext

-----------------------------------------------------------------------------
(* The queues.                                                             *)

\* A queue that nobody touches stays in order, and up to date.
LEMMA InOrderStays ==
  ASSUME NEW c \in Conns, InOrder(c), UNCHANGED <<url, fanned>>,
         send'[c] = send[c], seen'[c] = seen[c]
  PROVE  InOrder(c)'
<1>1. \A w, n, m : InTurn(c, w, n, m) => InTurn(c, w, n, m)'
  BY DEF InTurn, Queued
<1> QED
  BY <1>1 DEF InOrder

LEMMA UpToDateStays ==
  ASSUME NEW c \in Conns, NEW w \in Conns, UpToDate(c, w),
         UNCHANGED <<fanned, todo>>, send'[c] = send[c], seen'[c] = seen[c]
  PROVE  UpToDate(c, w)'
<1>1. \A n, m : Queued(c, w, n, m) => Queued(c, w, n, m)'
  BY DEF Queued
<1> QED
  BY <1>1 DEF UpToDate

\* Steps that neither fan out, queue nor write, and let nobody in.
LEMMA QuietQueues ==
  ASSUME QueueInv, UNCHANGED <<url, fanned, todo, send, seen, offered>>, ~crashed',
         Reached', NotYet',
         \A c \in Conns :
           /\ writer'[c] # "ended" => writer[c] # "ended"
           /\ c \in rooms'[url[c]] => c \in rooms[url[c]] /\ (closed'[c] <=> closed[c])
  PROVE  QueueInv'
<1>1. \A c \in Conns : Placed(c)'
  BY DEF QueueInv, Placed
<1>2. \A c \in Conns : InOrder(c) => InOrder(c)'
  BY InOrderStays
<1>3. \A c, w \in Conns : UpToDate(c, w) => UpToDate(c, w)'
  BY UpToDateStays
<1>4. NoGap'
  BY <1>2, <1>3 DEF QueueInv, NoGap
<1>5. Cut'
  BY DEF QueueInv, Cut
<1> QED
  BY <1>1, <1>4, <1>5 DEF QueueInv

\* The handlers' and the readPumps' own steps.
LEMMA ConnectionQueues ==
  ASSUME IInv, DTypeOK, QueueInv, NEW c \in Conns, Connection(c), ~DJoin(c)
  PROVE  QueueInv'
<1>t. /\ handler \in [Conns -> {"new", "accepted", "joined", "started", "done"}]
      /\ rooms \in [Rooms -> SUBSET Conns] /\ url \in [Conns -> Rooms]
      /\ writer \in [Conns -> {"none", "running", "ended"}]
  BY DEF DTypeOK, TypeOK
<1>1. UNCHANGED <<url, fanned, todo, send, seen, offered, closed>> /\ ~crashed'
  BY DEF Connection, DAccept, DLeave, DStartPumps, DStopClose, Unaffected, Accept, Leave,
     StartPumps, KeepSubscription, StartSubscription, StopNotNeeded, StopCheck, StopClear,
     StopClose, Subscribe, Register, connVars, deliveryVars, clientVars, queueVars,
     writeVars, fanVars
<1>2. CASE DLeave(c)
  <2>1. /\ NobodyEnqueues /\ rooms' = [rooms EXCEPT ![url[c]] = @ \ {c}]
        /\ UNCHANGED <<handler, writer>>
    BY <1>2 DEF DLeave, Leave, deliveryVars, clientVars, writeVars
  <2>2. Reached'
    BY <1>1, <2>1 DEF NobodyEnqueues, Reached
  <2>3. NotYet'
    BY <1>1, <2>1 DEF QueueInv, NotYet
  <2>4. \A d \in Conns : d \in rooms'[url[d]] => d \in rooms[url[d]]
    BY <1>t, <2>1
  <2> QED
    BY <1>1, <2>1, <2>2, <2>3, <2>4, QuietQueues
<1>3. CASE DAccept(c) \/ DStartPumps(c) \/ DStopClose(c) \/ Unaffected(c)
  <2>1. UNCHANGED rooms
    BY <1>3 DEF DAccept, DStartPumps, DStopClose, Unaffected, Accept, StartPumps,
       KeepSubscription, StartSubscription, StopNotNeeded, StopCheck, StopClear,
       StopClose, Subscribe, Register
  <2>2. Reached'
    BY <1>1, <2>1 DEF QueueInv, Reached
  <2>3. CASE DStartPumps(c)
    <3>1. /\ handler[c] = "joined" /\ handler' = [handler EXCEPT ![c] = "started"]
          /\ writer' = [writer EXCEPT ![c] = "running"]
      BY <2>3 DEF DStartPumps, StartPumps
    <3>2. NotYet' /\ \A d \in Conns : writer'[d] # "ended" => writer[d] # "ended"
      BY <1>1, <1>t, <3>1 DEF QueueInv, NotYet
    <3> QED
      BY <1>1, <2>1, <2>2, <3>2, QuietQueues
  <2>4. CASE ~DStartPumps(c)
    <3>1. UNCHANGED writer
      BY <1>3, <2>4 DEF DAccept, DStopClose, Unaffected, deliveryVars, clientVars, writeVars
    <3>2. ASSUME NEW d \in Conns
          PROVE  /\ handler'[d] \in {"new", "accepted"} => handler[d] \in {"new", "accepted"}
                 /\ handler'[d] = "joined" => handler[d] = "joined"
      BY <1>3, <1>t, <2>4 DEF DAccept, DStopClose, Unaffected, Accept, KeepSubscription,
         StartSubscription, StopNotNeeded, StopCheck, StopClear, StopClose, Subscribe,
         Register, connVars
    <3>3. NotYet'
      BY <1>1, <3>1, <3>2 DEF QueueInv, NotYet
    <3> QED
      BY <1>1, <2>1, <2>2, <3>1, <3>3, QuietQueues
  <2> QED
    BY <2>3, <2>4
<1> QED
  BY <1>2, <1>3 DEF Connection

\* Who joins has an empty queue that nobody has closed, and stands at the end of
\* what every subscriber has fanned out.
LEMMA JoinQueues ==
  ASSUME IInv, DTypeOK, QueueInv, NEW c \in Conns, DJoin(c)
  PROVE  QueueInv'
<1>1. /\ handler[c] = "accepted" /\ ~crashed' /\ NobodyEnqueues
      /\ handler' = [handler EXCEPT ![c] = "joined"]
      /\ rooms' = [rooms EXCEPT ![url[c]] = @ \cup {c}]
      /\ seen' = [seen EXCEPT ![c] = [w \in Conns |-> Len(fanned[w])]]
      /\ UNCHANGED <<url, send, closed, offered, fanned, todo, writer>>
  BY DEF DJoin, Join, queueVars, fanVars
<1>t. /\ handler \in [Conns -> {"new", "accepted", "joined", "started", "done"}]
      /\ rooms \in [Rooms -> SUBSET Conns] /\ url \in [Conns -> Rooms]
      /\ seen \in [Conns -> [Conns -> Nat]]
      /\ \A w \in Conns : Len(fanned[w]) \in Nat
  BY LenProperties DEF DTypeOK, TypeOK
<1>2. send[c] = <<>> /\ Len(send[c]) = 0 /\ ~closed[c] /\ writer[c] = "none"
  BY <1>1 DEF QueueInv, NotYet
<1>3. /\ \A w \in Conns : seen'[c][w] = Len(fanned[w])
      /\ \A d \in Conns \ {c} : seen'[d] = seen[d]
  BY <1>1, <1>t
<1>4. ASSUME NEW d \in Conns, d # c
      PROVE  (d \in rooms'[url[d]] => d \in rooms[url[d]]) /\ handler'[d] = handler[d]
  BY <1>1, <1>4, <1>t
<1>5. Reached'
  BY <1>1 DEF Reached, NobodyEnqueues
<1>6. NotYet'
  BY <1>1, <1>2, <1>4, <1>t DEF QueueInv, NotYet
<1>7. ASSUME NEW d \in Conns PROVE Placed(d)'
  <2>1. CASE d = c
    BY <1>1, <1>2, <1>3, <1>t, <2>1 DEF Placed, NobodyEnqueues
  <2>2. CASE d # c
    BY <1>1, <1>3, <2>2 DEF QueueInv, Placed
  <2> QED
    BY <2>1, <2>2
<1>8. ASSUME NEW d \in Conns, writer'[d] # "ended"
      PROVE  /\ InOrder(d)'
             /\ d \in rooms'[url'[d]] /\ ~closed'[d] =>
                  \A w \in Conns : url'[w] = url'[d] => UpToDate(d, w)'
  <2>1. CASE d = c
    <3>1. InOrder(c)'
      BY <1>1, <1>2 DEF InOrder
    <3>2. ASSUME NEW w \in Conns PROVE UpToDate(c, w)'
      BY <1>1, <1>3, <1>t DEF UpToDate
    <3> QED
      BY <2>1, <3>1, <3>2
  <2>2. CASE d # c
    <3>1. /\ InOrder(d)
          /\ d \in rooms[url[d]] /\ ~closed[d] =>
               \A w \in Conns : url[w] = url[d] => UpToDate(d, w)
      BY <1>1, <1>8 DEF QueueInv, NoGap
    <3>2. InOrder(d)'
      BY <1>1, <1>3, <2>2, <3>1, InOrderStays
    <3>3. ASSUME NEW w \in Conns, UpToDate(d, w) PROVE UpToDate(d, w)'
      BY <1>1, <1>3, <2>2, <3>3, UpToDateStays
    <3> QED
      BY <1>1, <1>4, <2>2, <3>1, <3>2, <3>3
  <2> QED
    BY <2>1, <2>2
<1>9. Cut'
  BY <1>1, <1>2, <1>4 DEF QueueInv, Cut
<1> QED
  BY <1>5, <1>6, <1>7, <1>8, <1>9 DEF QueueInv, NoGap

\* A readPump that closes its client has taken it out of the room before.
LEMMA TalkQueues ==
  ASSUME IInv, DTypeOK, QueueInv, NEW c \in Conns, Talk(c)
  PROVE  QueueInv'
<1>1. /\ UNCHANGED <<url, fanned, todo, send, seen, offered, handler, rooms, writer>>
      /\ ~crashed'
  <2>1. ASSUME NEW kind, SendEvent(c, kind)
        PROVE  UNCHANGED <<vars, clientVars, fanVars, crashed>> /\ ~crashed
    BY <2>1 DEF SendEvent
  <2>2. CASE AnnounceJoin(c) \/ AnnounceLeave(c)
    BY <2>2 DEF AnnounceJoin, AnnounceLeave, vars, clientVars, queueVars, writeVars, fanVars
  <2>3. CASE CloseClient(c)
    BY <2>3 DEF CloseClient, vars, writeVars, fanVars
  <2> QED
    BY <2>1, <2>2, <2>3 DEF Talk, vars, clientVars, queueVars, writeVars, fanVars
<1>2. Reached'
  BY <1>1 DEF QueueInv, Reached
<1>3. CASE CloseClient(c)
  <2>1. pump[c] = "gone" /\ closed' = [closed EXCEPT ![c] = TRUE]
    BY <1>3 DEF CloseClient
  <2>2. url[c] \in Rooms /\ closed \in [Conns -> BOOLEAN]
    BY DEF DTypeOK, TypeOK
  <2>3. c \notin rooms[url[c]] /\ handler[c] \notin {"new", "accepted"}
    BY <2>1, <2>2 DEF IInv, Membership, Started
  <2>4. \A d \in Conns \ {c} : closed'[d] = closed[d]
    BY <2>1, <2>2
  <2>5. NotYet'
    BY <1>1, <2>3, <2>4 DEF QueueInv, NotYet
  <2>6. \A d \in Conns : d \in rooms[url[d]] => closed'[d] = closed[d]
    BY <2>3, <2>4
  <2> QED
    BY <1>1, <1>2, <2>5, <2>6, QuietQueues
<1>4. CASE ~CloseClient(c)
  <2>1. UNCHANGED closed
    BY <1>4 DEF Talk, SendEvent, AnnounceJoin, AnnounceLeave, clientVars, queueVars
  <2>2. NotYet'
    BY <1>1, <2>1 DEF QueueInv, NotYet
  <2> QED
    BY <1>1, <1>2, <2>1, <2>2, QuietQueues
<1> QED
  BY <1>3, <1>4

\* The subscriber's steps up to its fan-out.
LEMMA StoringQueues ==
  ASSUME IInv, DTypeOK, QueueInv, NEW w \in Conns,
         \/ RedisSubscribed(w) \/ DGiveUp(w) \/ DFinish(w)
         \/ TakeLive(w) \/ LPush(w) \/ LPushFails(w) \/ LTrim(w)
  PROVE  QueueInv'
<1>1. /\ UNCHANGED <<url, fanned, todo, send, seen, offered, handler, rooms, writer, closed>>
      /\ ~crashed'
  <2>1. CASE RedisSubscribed(w) \/ LTrim(w) \/ TakeLive(w) \/ LPush(w) \/ LPushFails(w)
    BY <2>1 DEF RedisSubscribed, LTrim, TakeLive, LPush, LPushFails, Receiving, vars,
       clientVars, queueVars, writeVars, fanVars
  <2>2. CASE DGiveUp(w) \/ DFinish(w)
    BY <2>2 DEF DGiveUp, DFinish, GiveUp, Finish, connVars, deliveryVars, clientVars,
       queueVars, writeVars, fanVars
  <2> QED
    BY <2>1, <2>2
<1>2. Reached' /\ NotYet'
  BY <1>1 DEF QueueInv, Reached, NotYet
<1> QED
  BY <1>1, <1>2, QuietQueues

\* A message is fanned out: every member has still to get it, and no queue holds it.
LEMMA FanOutQueues ==
  ASSUME IInv, DTypeOK, OneAtATime, QueueInv, NEW w \in Conns, FanOut(w)
  PROVE  QueueInv'
<1>1. /\ work[w] # <<>> /\ ~crashed'
      /\ fanned' = [fanned EXCEPT ![w] = @ \o work[w]]
      /\ todo' = [todo EXCEPT ![w] = rooms[url[w]]]
      /\ UNCHANGED <<url, rooms, handler, send, closed, offered, writer, seen>>
  BY DEF FanOut, vars, clientVars, queueVars, writeVars
<1>2. /\ fanned \in [Conns -> Seq(Message)] /\ work[w] \in Seq(Message) /\ Len(work[w]) <= 1
      /\ todo \in [Conns -> SUBSET Conns] /\ seen \in [Conns -> [Conns -> Nat]]
      /\ send \in [Conns -> Seq(Entry)]
      /\ todo[w] = {}
  BY <1>1 DEF DTypeOK, OneAtATime
<1>3. /\ Len(fanned[w]) \in Nat
      /\ Len(fanned'[w]) = Len(fanned[w]) + 1
      /\ \A v \in Conns \ {w} : fanned'[v] = fanned[v] /\ todo'[v] = todo[v]
      /\ todo'[w] = rooms[url[w]]
  BY <1>1, <1>2, OneMore
<1>l. \A v \in Conns : Len(fanned[v]) \in Nat
  BY <1>2, LenProperties
<1>e. \A c \in Conns : \A i \in 1 .. Len(send[c]) : send[c][i] \in Entry
  BY <1>2, ElementOfSeq, LenProperties
<1>4. Reached'
  BY <1>1, <1>3 DEF QueueInv, Reached
<1>5. NotYet'
  BY <1>1 DEF QueueInv, NotYet
<1>6. ASSUME NEW c \in Conns PROVE Placed(c)'
  <2>1. Placed(c)
    BY DEF QueueInv
  <2>2. ASSUME NEW v \in Conns PROVE seen[c][v] <= Len(fanned'[v]) /\ seen[c][v] \in Nat
    <3>1. seen[c][v] \in Nat /\ seen[c][v] <= Len(fanned[v])
      BY <1>2, <2>1 DEF Placed
    <3>2. Len(fanned'[v]) = Len(fanned[v]) \/ Len(fanned'[v]) = Len(fanned[v]) + 1
      BY <1>3
    <3> QED
      BY <1>l, <3>1, <3>2
  <2>3. ASSUME NEW i \in 1 .. Len(send[c])
        PROVE  send[c][i].at <= Len(fanned'[send[c][i].feed])
    <3>1. send[c][i].at \in Nat /\ send[c][i].feed \in Conns
          /\ send[c][i].at <= Len(fanned[send[c][i].feed])
      BY <1>e, <2>1 DEF Placed, Entry
    <3> QED
      BY <1>3, <1>l, <3>1
  <2>4. ASSUME NEW v \in Conns, c \in todo'[v]
        PROVE  /\ seen[c][v] < Len(fanned'[v])
               /\ \A i \in 1 .. Len(send[c]) : send[c][i].feed = v => send[c][i].at < Len(fanned'[v])
    <3>1. CASE v = w
      <4>1. seen[c][w] \in Nat /\ seen[c][w] <= Len(fanned[w])
        BY <1>2, <2>1 DEF Placed
      <4>2. ASSUME NEW i \in 1 .. Len(send[c]), send[c][i].feed = w
            PROVE  send[c][i].at \in Nat /\ send[c][i].at <= Len(fanned[w])
        BY <1>e, <2>1, <4>2 DEF Placed, Entry
      <4> QED
        BY <1>3, <3>1, <4>1, <4>2
    <3>2. CASE v # w
      BY <1>3, <2>1, <2>4, <3>2 DEF Placed
    <3> QED
      BY <3>1, <3>2
  <2> QED
    BY <1>1, <2>2, <2>3, <2>4 DEF Placed
<1>7. ASSUME NEW c \in Conns, InOrder(c) PROVE InOrder(c)'
  <2>1. ASSUME NEW v \in Conns, NEW n \in Nat, NEW i \in 1 .. Len(send[c]), InTurn(c, v, n, i - 1)
        PROVE  InTurn(c, v, n, i - 1)'
    <3>1. \A k : Queued(c, v, k, i - 1)' <=> Queued(c, v, k, i - 1)
      BY <1>1 DEF Queued
    <3>2. ASSUME NEW k \in n .. Len(fanned'[v]), Queued(c, v, k, i - 1)
          PROVE  FALSE
      <4>1. PICK j \in 1 .. i - 1 : send[c][j] = [feed |-> v, at |-> k]
        BY <3>2 DEF Queued
      <4>2. j \in 1 .. Len(send[c]) /\ send[c][j].feed = v /\ send[c][j].at = k
        BY <1>2, <4>1, LenProperties
      <4>3. k <= Len(fanned[v])
        BY <4>2 DEF QueueInv, Placed
      <4>4. k \in n .. Len(fanned[v])
        BY <1>l, <3>2, <4>3
      <4> QED
        BY <2>1, <3>2, <4>4 DEF InTurn
    <3> QED
      BY <1>1, <2>1, <3>1, <3>2 DEF InTurn
  <2>2. \A i \in 1 .. Len(send[c]) : send[c][i].feed \in Conns /\ send[c][i].at \in Nat
    BY <1>e DEF Entry
  <2> QED
    BY <1>1, <1>7, <2>1, <2>2 DEF InOrder
<1>8. ASSUME NEW c \in Conns, NEW v \in Conns, UpToDate(c, v), c \in rooms[url[c]], url[v] = url[c]
      PROVE  UpToDate(c, v)'
  <2>1. CASE v # w
    BY <1>1, <1>3, <1>8, <2>1 DEF UpToDate, Queued
  <2>2. CASE v = w
    <3>1. ASSUME NEW n \in seen[c][w] + 1 .. Len(fanned'[w])
          PROVE  Queued(c, w, n, Len(send[c])) \/ (n = Len(fanned'[w]) /\ c \in todo'[w])
      <4>1. CASE n = Len(fanned[w]) + 1
        BY <1>3, <1>8, <2>2, <4>1
      <4>2. CASE n # Len(fanned[w]) + 1
        <5>1. n \in seen[c][w] + 1 .. Len(fanned[w])
          BY <1>2, <1>3, <3>1, <4>2
        <5> QED
          BY <1>2, <1>8, <2>2, <5>1 DEF UpToDate
      <4> QED
        BY <4>1, <4>2
    <3> QED
      BY <1>1, <2>2, <3>1 DEF UpToDate, Queued
  <2> QED
    BY <2>1, <2>2
<1>9. NoGap'
  BY <1>1, <1>7, <1>8 DEF QueueInv, NoGap
<1>10. Cut'
  BY <1>1 DEF QueueInv, Cut
<1> QED
  BY <1>4, <1>5, <1>6, <1>9, <1>10 DEF QueueInv

\* A member whose queue is full is closed; it had been offered as much as fits.
LEMMA EnqueueCloses ==
  ASSUME IInv, DTypeOK, QueueInv, NEW w \in Conns, NEW c \in Conns, Enqueue(w, c), Full(c)
  PROVE  QueueInv'
<1>1. /\ c \in todo[w] /\ ~closed[c] /\ ~crashed'
      /\ todo' = [todo EXCEPT ![w] = @ \ {c}]
      /\ offered' = [offered EXCEPT ![c] = @ + 1]
      /\ closed' = [closed EXCEPT ![c] = TRUE]
      /\ UNCHANGED <<url, rooms, handler, send, fanned, writer, seen>>
  BY DEF Enqueue, vars, writeVars
<1>t. /\ todo \in [Conns -> SUBSET Conns] /\ offered \in [Conns -> Nat]
      /\ closed \in [Conns -> BOOLEAN] /\ url \in [Conns -> Rooms]
      /\ Len(send[c]) \in Nat
  BY LenProperties DEF DTypeOK, TypeOK
<1>2. /\ \A v \in Conns : todo'[v] \subseteq todo[v]
      /\ \A v, d \in Conns : d # c /\ d \in todo[v] => d \in todo'[v]
      /\ closed'[c] /\ \A d \in Conns \ {c} : closed'[d] = closed[d]
  BY <1>1, <1>t
<1>3. c \in rooms[url[w]] /\ url[c] = url[w] /\ handler[c] \notin {"new", "accepted"}
  BY <1>1, <1>t DEF QueueInv, Reached, IInv, Membership
<1>4. Reached' /\ NotYet'
  BY <1>1, <1>2, <1>3 DEF QueueInv, Reached, NotYet
<1>5. \A d \in Conns : Placed(d)'
  BY <1>1, <1>2 DEF QueueInv, Placed
<1>6. \A d \in Conns : InOrder(d) => InOrder(d)'
  BY <1>1, InOrderStays
<1>7. ASSUME NEW d \in Conns, d # c, NEW v \in Conns, UpToDate(d, v) PROVE UpToDate(d, v)'
  <2>1. \A n, m : Queued(d, v, n, m) => Queued(d, v, n, m)'
    BY <1>1 DEF Queued
  <2> QED
    BY <1>1, <1>2, <1>7, <2>1 DEF UpToDate
<1>8. NoGap'
  BY <1>1, <1>2, <1>6, <1>7 DEF QueueInv, NoGap
<1>9. Cut'
  <2>1. /\ Len(send[c]) <= offered[c] /\ Len(send[c]) >= SendCap
        /\ offered'[c] = offered[c] + 1 /\ offered[c] \in Nat
        /\ \A d \in Conns \ {c} : offered'[d] = offered[d]
    BY <1>1, <1>t DEF QueueInv, Cut, Full
  <2>2. Len(send[c]) <= offered'[c] /\ offered'[c] > SendCap
    BY <1>t, <2>1, DeliveryAssumption
  <2>3. \A d \in Conns : Len(send[d]) <= offered'[d]
    BY <2>1, <2>2 DEF QueueInv, Cut
  <2>4. \A d \in Conns : closed'[d] /\ d \in rooms[url[d]] => offered'[d] > SendCap
    BY <1>2, <2>1, <2>2 DEF QueueInv, Cut
  <2> QED
    BY <1>1, <2>3, <2>4 DEF Cut
<1> QED
  BY <1>4, <1>5, <1>8, <1>9 DEF QueueInv

\* Any other gets the message behind all that its queue lacked nothing of.
LEMMA EnqueueQueues ==
  ASSUME IInv, DTypeOK, QueueInv, NEW w \in Conns, NEW c \in Conns, Enqueue(w, c), ~Full(c)
  PROVE  QueueInv'
<1>0. PICK top : top = Len(fanned[w])
  OBVIOUS
<1>s. PICK q : q = send[c]
  OBVIOUS
<1> DEFINE e == [feed |-> w, at |-> top]
<1>1. /\ c \in todo[w] /\ ~closed[c] /\ ~crashed'
      /\ todo' = [todo EXCEPT ![w] = @ \ {c}]
      /\ offered' = [offered EXCEPT ![c] = @ + 1]
      /\ send' = [send EXCEPT ![c] = Append(@, e)]
      /\ UNCHANGED <<url, rooms, handler, closed, fanned, writer, seen>>
  BY <1>0 DEF Enqueue, vars, writeVars
<1>t. /\ todo \in [Conns -> SUBSET Conns] /\ offered \in [Conns -> Nat]
      /\ url \in [Conns -> Rooms] /\ send \in [Conns -> Seq(Entry)]
      /\ seen \in [Conns -> [Conns -> Nat]]
      /\ q \in Seq(Entry) /\ Len(q) \in Nat /\ top \in Nat
      /\ \A v \in Conns : Len(fanned[v]) \in Nat
  BY <1>0, <1>s, LenProperties DEF DTypeOK, TypeOK
<1>e. e \in Entry /\ e.feed = w /\ e.at = top
  BY <1>t DEF Entry
<1>2. /\ \A v \in Conns : todo'[v] \subseteq todo[v] /\ (v # w => todo'[v] = todo[v])
      /\ c \notin todo'[w]
      /\ \A v, d \in Conns : d # c /\ d \in todo[v] => d \in todo'[v]
      /\ \A d \in Conns \ {c} : send'[d] = send[d]
      /\ send'[c] = Append(q, e)
  BY <1>1, <1>s, <1>t
<1> HIDE DEF e
<1>3. /\ Len(send'[c]) = Len(q) + 1
      /\ \A i \in 1 .. Len(q) : send'[c][i] = q[i]
      /\ send'[c][Len(q) + 1] = e
  BY <1>2, <1>e, <1>t, AppendFacts
<1>m. c \in rooms[url[w]] /\ url[c] = url[w] /\ handler[c] \notin {"new", "accepted"}
  BY <1>1, <1>t DEF QueueInv, Reached, IInv, Membership
<1>4. Reached' /\ NotYet'
  BY <1>1, <1>2, <1>m DEF QueueInv, Reached, NotYet
<1>p. /\ \A v \in Conns : seen[c][v] <= Len(fanned[v])
      /\ \A i \in 1 .. Len(q) : q[i].at <= Len(fanned[q[i].feed])
      /\ \A v \in Conns : c \in todo[v] =>
           /\ seen[c][v] < Len(fanned[v])
           /\ \A i \in 1 .. Len(q) : q[i].feed = v => q[i].at < Len(fanned[v])
  BY <1>s DEF QueueInv, Placed
<1>i. \A i \in 1 .. Len(send'[c]) : i \in 1 .. Len(q) \/ i = Len(q) + 1
  BY <1>3, <1>t
<1>5. ASSUME NEW d \in Conns PROVE Placed(d)'
  <2>1. CASE d # c
    BY <1>1, <1>2, <2>1 DEF QueueInv, Placed
  <2>2. CASE d = c
    <3>1. \A i \in 1 .. Len(send'[c]) : send'[c][i].at <= Len(fanned[send'[c][i].feed])
      <4> SUFFICES ASSUME NEW i \in 1 .. Len(send'[c])
                   PROVE  send'[c][i].at <= Len(fanned[send'[c][i].feed])
        OBVIOUS
      <4>1. CASE i \in 1 .. Len(q)
        <5>1. send'[c][i] = q[i]
          BY <1>3, <4>1
        <5> QED
          BY <1>p, <4>1, <5>1
      <4>2. CASE i = Len(q) + 1
        <5>1. send'[c][i].feed = w /\ send'[c][i].at = top
          BY <1>3, <1>e, <4>2
        <5> QED
          BY <1>0, <1>t, <5>1
      <4> QED
        BY <1>i, <4>1, <4>2
    <3>2. ASSUME NEW v \in Conns, c \in todo'[v], NEW i \in 1 .. Len(send'[c]), send'[c][i].feed = v
          PROVE  send'[c][i].at < Len(fanned[v])
      BY <1>2, <1>3, <1>e, <1>i, <1>p, <3>2
    <3>3. \A v \in Conns : c \in todo'[v] => seen[c][v] < Len(fanned[v])
      BY <1>2, <1>p
    <3> QED
      BY <1>1, <1>p, <2>2, <3>1, <3>2, <3>3 DEF Placed
  <2> QED
    BY <2>1, <2>2
\* What stood in the queue still stands there.
<1>6. \A v, n : \A m \in 0 .. Len(q) : Queued(c, v, n, m)' <=> Queued(c, v, n, m)
  <2> SUFFICES ASSUME NEW v, NEW n, NEW m \in 0 .. Len(q)
               PROVE  Queued(c, v, n, m)' <=> Queued(c, v, n, m)
    OBVIOUS
  <2>1. \A j \in 1 .. m : send'[c][j] = send[c][j]
    BY <1>3, <1>s, <1>t
  <2> QED
    BY <2>1 DEF Queued
<1>7. ASSUME writer[c] # "ended" PROVE InOrder(c)'
  <2>1. ASSUME NEW i \in 1 .. Len(q)
        PROVE  InTurn(c, q[i].feed, q[i].at, i - 1)'
    <3>1. InTurn(c, q[i].feed, q[i].at, i - 1)
      BY <1>7, <1>s DEF QueueInv, NoGap, InOrder
    <3>2. i - 1 \in 0 .. Len(q)
      BY <1>t
    <3> QED
      BY <1>1, <1>6, <3>1, <3>2 DEF InTurn
  <2>2. InTurn(c, w, top, Len(q))'
    <3>1. UpToDate(c, w)
      BY <1>1, <1>7, <1>m DEF QueueInv, NoGap
    <3>2. ASSUME NEW k \in seen[c][w] + 1 .. top - 1 PROVE Queued(c, w, k, Len(q))
      <4>1. k \in seen[c][w] + 1 .. Len(fanned[w]) /\ k # Len(fanned[w])
        BY <1>0, <1>t
      <4> QED
        BY <1>s, <3>1, <4>1 DEF UpToDate
    <3>3. ASSUME NEW k \in top .. Len(fanned[w]), Queued(c, w, k, Len(q)) PROVE FALSE
      <4>1. PICK j \in 1 .. Len(q) : q[j] = [feed |-> w, at |-> k]
        BY <1>s, <3>3 DEF Queued
      <4>2. q[j].feed = w /\ q[j].at = k
        BY <4>1
      <4>3. k < Len(fanned[w])
        BY <1>1, <1>p, <4>2
      <4> QED
        BY <1>0, <1>t, <4>3
    <3>4. Len(q) \in 0 .. Len(q) /\ seen[c][w] < top
      BY <1>0, <1>1, <1>p, <1>t
    <3> QED
      BY <1>1, <1>6, <1>m, <3>2, <3>3, <3>4 DEF InTurn
  <2>3. ASSUME NEW i \in 1 .. Len(send'[c])
        PROVE  InTurn(c, send[c][i].feed, send[c][i].at, i - 1)'
    <3>1. CASE i \in 1 .. Len(q)
      BY <1>3, <2>1, <3>1
    <3>2. CASE i = Len(q) + 1
      <4>1. i - 1 = Len(q) /\ send'[c][i].feed = w /\ send'[c][i].at = top
        BY <1>3, <1>e, <1>t, <3>2
      <4> QED
        BY <2>2, <4>1
    <3> QED
      BY <1>i, <3>1, <3>2
  <2> QED
    BY <2>3 DEF InOrder
<1>8. ASSUME NEW v \in Conns, UpToDate(c, v) PROVE UpToDate(c, v)'
  <2>1. ASSUME NEW n \in seen[c][v] + 1 .. Len(fanned[v])
        PROVE  Queued(c, v, n, Len(q) + 1)' \/ (n = Len(fanned[v]) /\ c \in todo'[v])
    <3>1. CASE Queued(c, v, n, Len(q))
      <4>1. PICK j \in 1 .. Len(q) : q[j] = [feed |-> v, at |-> n]
        BY <1>s, <3>1 DEF Queued
      <4>2. send'[c][j] = [feed |-> v, at |-> n]
        BY <1>3, <4>1
      <4>3. j \in 1 .. Len(q) + 1
        BY <1>t
      <4> QED
        BY <4>2, <4>3 DEF Queued
    <3>2. CASE n = Len(fanned[v]) /\ c \in todo[v]
      <4>1. CASE v = w
        <5>1. Len(q) + 1 \in 1 .. Len(q) + 1 /\ send'[c][Len(q) + 1] = [feed |-> v, at |-> n]
          BY <1>0, <1>3, <1>t, <3>2, <4>1 DEF e
        <5> QED
          BY <5>1 DEF Queued
      <4>2. CASE v # w
        BY <1>2, <3>2, <4>2
      <4> QED
        BY <4>1, <4>2
    <3> QED
      BY <1>8, <1>s, <2>1, <3>1, <3>2 DEF UpToDate
  <2> QED
    BY <1>1, <1>3, <2>1 DEF UpToDate
<1>9. ASSUME NEW d \in Conns, d # c
      PROVE  /\ InOrder(d) => InOrder(d)'
             /\ \A v \in Conns : UpToDate(d, v) => UpToDate(d, v)'
  <2>1. InOrder(d) => InOrder(d)'
    BY <1>1, <1>2, <1>9, InOrderStays
  <2>2. ASSUME NEW v \in Conns, UpToDate(d, v) PROVE UpToDate(d, v)'
    <3>1. \A n, m : Queued(d, v, n, m) => Queued(d, v, n, m)'
      BY <1>2, <1>9 DEF Queued
    <3> QED
      BY <1>1, <1>2, <1>9, <2>2, <3>1 DEF UpToDate
  <2> QED
    BY <2>1, <2>2
<1>10. NoGap'
  <2> SUFFICES ASSUME NEW d \in Conns, writer[d] # "ended"
               PROVE  /\ InOrder(d)'
                      /\ d \in rooms[url[d]] /\ ~closed[d] =>
                           \A v \in Conns : url[v] = url[d] => UpToDate(d, v)'
    BY <1>1 DEF NoGap
  <2>1. /\ InOrder(d)
        /\ d \in rooms[url[d]] /\ ~closed[d] =>
             \A v \in Conns : url[v] = url[d] => UpToDate(d, v)
    BY DEF QueueInv, NoGap
  <2> QED
    BY <1>7, <1>8, <1>9, <2>1
<1>11. Cut'
  <2>1. /\ Len(q) <= offered[c] /\ offered'[c] = offered[c] + 1 /\ offered[c] \in Nat
        /\ \A d \in Conns \ {c} : offered'[d] = offered[d]
    BY <1>1, <1>s, <1>t DEF QueueInv, Cut
  <2>2. Len(send'[c]) <= offered'[c]
    BY <1>3, <1>t, <2>1
  <2>3. \A d \in Conns : Len(send'[d]) <= offered'[d]
    BY <1>2, <2>1, <2>2 DEF QueueInv, Cut
  <2>4. \A d \in Conns : closed[d] /\ d \in rooms[url[d]] => offered'[d] > SendCap
    BY <1>1, <2>1 DEF QueueInv, Cut
  <2> QED
    BY <1>1, <2>3, <2>4 DEF Cut
<1> QED
  BY <1>4, <1>5, <1>10, <1>11 DEF QueueInv

\* The process is dead; somebody had been cut off.
LEMMA PanicQueues ==
  ASSUME IInv, DTypeOK, QueueInv, NEW w \in Conns, NEW c \in Conns, EnqueuePanics(w, c)
  PROVE  QueueInv'
<1>1. /\ c \in todo[w] /\ closed[c]
      /\ UNCHANGED <<url, rooms, handler, send, closed, offered, fanned, todo, writer, seen>>
  BY DEF EnqueuePanics, vars, clientVars, queueVars, writeVars, fanVars
<1>2. url \in [Conns -> Rooms]
  BY DEF DTypeOK, TypeOK
<1>3. c \in rooms[url[c]]
  BY <1>1, <1>2 DEF QueueInv, Reached, IInv, Membership
<1>4. Reached' /\ NotYet'
  BY <1>1 DEF QueueInv, Reached, NotYet
<1>5. \A d \in Conns : Placed(d)'
  BY <1>1 DEF QueueInv, Placed
<1>6. NoGap'
  <2>1. \A d \in Conns : InOrder(d) => InOrder(d)'
    BY <1>1, InOrderStays
  <2>2. \A d, v \in Conns : UpToDate(d, v) => UpToDate(d, v)'
    BY <1>1, UpToDateStays
  <2> QED
    BY <1>1, <2>1, <2>2 DEF QueueInv, NoGap
<1>7. Cut'
  BY <1>1, <1>3 DEF QueueInv, Cut
<1> QED
  BY <1>4, <1>5, <1>6, <1>7 DEF QueueInv

\* The head of a queue in order is the next message of its subscriber.
LEMMA HeadIsNext ==
  ASSUME DTypeOK, QueueInv, NEW c \in Conns, send[c] # <<>>, writer[c] # "ended"
  PROVE  LET e == Head(send[c]) IN
         /\ e.feed \in Conns /\ url[e.feed] = url[c]
         /\ e.at = seen[c][e.feed] + 1
         /\ e.at <= Len(fanned[e.feed])
<1> DEFINE e == Head(send[c])
<1>1. e = send[c][1] /\ e \in Entry /\ 1 \in 1 .. Len(send[c])
  BY TailFacts DEF DTypeOK
<1>2. e.feed \in Conns /\ e.at \in Nat /\ seen[c][e.feed] \in Nat
  <2>1. e.feed \in Conns /\ e.at \in Nat
    BY <1>1 DEF Entry
  <2> QED
    BY <2>1 DEF DTypeOK
<1>3. InTurn(c, e.feed, e.at, 0)
  BY <1>1 DEF QueueInv, NoGap, InOrder
<1> HIDE DEF e
<1>4. \A n : ~Queued(c, e.feed, n, 0)
  BY DEF Queued
<1>5. ~(seen[c][e.feed] + 1 \in seen[c][e.feed] + 1 .. e.at - 1) /\ seen[c][e.feed] < e.at
  BY <1>3, <1>4 DEF InTurn
<1>6. e.at = seen[c][e.feed] + 1
  BY <1>2, <1>5
<1>7. e.at <= Len(fanned[e.feed])
  BY <1>1 DEF QueueInv, Placed
<1> QED
  BY <1>2, <1>3, <1>6, <1>7 DEF e, InTurn

\* It is written, and what it leaves is in order behind it.
LEMMA WriteQueues ==
  ASSUME IInv, DTypeOK, QueueInv, NEW c \in Conns, Write(c)
  PROVE  QueueInv'
<1>q. PICK q : q = send[c]
  OBVIOUS
<1>f. PICK f, k : f = Head(send[c]).feed /\ k = Head(send[c]).at
  OBVIOUS
<1>1. /\ q # <<>> /\ writer[c] = "running" /\ ~crashed'
      /\ send' = [send EXCEPT ![c] = Tail(@)]
      /\ seen' = [seen EXCEPT ![c][f] = k]
      /\ UNCHANGED <<url, rooms, handler, closed, offered, fanned, todo, writer>>
  BY <1>f, <1>q DEF Write, WriteHead, vars, fanVars
<1>t. /\ q \in Seq(Entry) /\ send \in [Conns -> Seq(Entry)]
      /\ seen \in [Conns -> [Conns -> Nat]] /\ offered \in [Conns -> Nat]
      /\ \A v \in Conns : Len(fanned[v]) \in Nat
  BY <1>q, LenProperties DEF DTypeOK
<1>2. /\ Len(q) \in Nat /\ Len(q) >= 1 /\ Head(q) = q[1]
      /\ Len(Tail(q)) = Len(q) - 1 /\ \A i \in 1 .. Len(q) - 1 : Tail(q)[i] = q[i + 1]
  BY <1>1, <1>t, TailFacts
<1>e. \A i \in 1 .. Len(q) : q[i].feed \in Conns /\ q[i].at \in Nat
  <2> SUFFICES ASSUME NEW i \in 1 .. Len(q) PROVE q[i] \in Entry
    BY DEF Entry
  <2> QED
    BY <1>t, ElementOfSeq
<1>h. f \in Conns /\ k = seen[c][f] + 1 /\ k <= Len(fanned[f]) /\ k \in Nat
      /\ q[1].feed = f /\ q[1].at = k
  BY <1>1, <1>2, <1>f, <1>q, <1>t, HeadIsNext
<1>3. /\ send'[c] = Tail(q) /\ \A d \in Conns \ {c} : send'[d] = send[d]
      /\ seen'[c][f] = k /\ \A v \in Conns \ {f} : seen'[c][v] = seen[c][v]
      /\ \A d \in Conns \ {c} : seen'[d] = seen[d]
  BY <1>1, <1>h, <1>q, <1>t
<1>4. Reached' /\ NotYet'
  BY <1>1, <1>3 DEF QueueInv, Reached, NotYet
<1>p. /\ \A v \in Conns : seen[c][v] <= Len(fanned[v])
      /\ \A i \in 1 .. Len(q) : q[i].at <= Len(fanned[q[i].feed])
      /\ \A v \in Conns : c \in todo[v] =>
           /\ seen[c][v] < Len(fanned[v])
           /\ \A i \in 1 .. Len(q) : q[i].feed = v => q[i].at < Len(fanned[v])
  BY <1>q DEF QueueInv, Placed
<1>i. \A i \in 1 .. Len(q) - 1 : i + 1 \in 1 .. Len(q) /\ send'[c][i] = q[i + 1]
  BY <1>2, <1>3
<1>l. Len(send'[c]) = Len(q) - 1
  BY <1>2, <1>3
<1>5. ASSUME NEW d \in Conns PROVE Placed(d)'
  <2>1. CASE d # c
    BY <1>1, <1>3, <2>1 DEF QueueInv, Placed
  <2>2. CASE d = c
    <3>1. \A v \in Conns : seen'[c][v] <= Len(fanned[v])
      BY <1>3, <1>h, <1>p
    <3>2. \A i \in 1 .. Len(send'[c]) : send'[c][i].at <= Len(fanned[send'[c][i].feed])
      BY <1>i, <1>l, <1>p
    <3>3. ASSUME NEW v \in Conns, c \in todo[v]
          PROVE  /\ seen'[c][v] < Len(fanned[v])
                 /\ \A i \in 1 .. Len(send'[c]) :
                      send'[c][i].feed = v => send'[c][i].at < Len(fanned[v])
      <4>1. seen'[c][v] < Len(fanned[v])
        BY <1>2, <1>3, <1>h, <1>p, <3>3
      <4> QED
        BY <1>i, <1>l, <1>p, <3>3, <4>1
    <3> QED
      BY <1>1, <2>2, <3>1, <3>2, <3>3 DEF Placed
  <2> QED
    BY <2>1, <2>2
<1>o. \A i \in 1 .. Len(q) : InTurn(c, q[i].feed, q[i].at, i - 1)
  BY <1>1, <1>q DEF QueueInv, NoGap, InOrder
\* What stood in the queue and is not the message written still stands there.
<1>6. ASSUME NEW v \in Conns, NEW n \in Nat, NEW m \in 1 .. Len(q), Queued(c, v, n, m),
             n > seen'[c][v]
      PROVE  Queued(c, v, n, m - 1)'
  <2>1. PICK j \in 1 .. m : q[j] = [feed |-> v, at |-> n]
    BY <1>6, <1>q DEF Queued
  <2>2. q[j].feed = v /\ q[j].at = n
    BY <2>1
  <2>3. j # 1
    BY <1>3, <1>6, <1>h, <2>2
  <2>4. j - 1 \in 1 .. m - 1 /\ j - 1 \in 1 .. Len(q) - 1 /\ (j - 1) + 1 = j
    BY <1>2, <2>3
  <2>5. send'[c][j - 1] = [feed |-> v, at |-> n]
    BY <1>i, <2>1, <2>4
  <2> QED
    BY <2>4, <2>5 DEF Queued
\* And nothing else does.
<1>7. ASSUME NEW v, NEW n, NEW m \in 1 .. Len(q), Queued(c, v, n, m - 1)'
      PROVE  Queued(c, v, n, m)
  <2>1. PICK j \in 1 .. m - 1 : send'[c][j] = [feed |-> v, at |-> n]
    BY <1>7 DEF Queued
  <2>2. j \in 1 .. Len(q) - 1 /\ j + 1 \in 1 .. m
    BY <1>2
  <2>3. q[j + 1] = [feed |-> v, at |-> n]
    BY <1>i, <2>1, <2>2
  <2> QED
    BY <1>q, <2>2, <2>3 DEF Queued
<1>8. ASSUME NEW i \in 1 .. Len(q) - 1
      PROVE  InTurn(c, send[c][i].feed, send[c][i].at, i - 1)'
  <2>0. PICK v, n : v = q[i + 1].feed /\ n = q[i + 1].at
    OBVIOUS
  <2>1. /\ v \in Conns /\ n \in Nat /\ seen[c][v] \in Nat
        /\ i \in 1 .. Len(q) /\ i + 1 \in 1 .. Len(q) /\ (i + 1) - 1 = i
    BY <1>2, <1>e, <1>i, <1>t, <2>0
  <2>2. /\ url[v] = url[c] /\ seen[c][v] < n
        /\ \A x \in seen[c][v] + 1 .. n - 1 : Queued(c, v, x, i)
        /\ ~ \E x \in n .. Len(fanned[v]) : Queued(c, v, x, i)
    BY <1>o, <2>0, <2>1 DEF InTurn
  <2>3. seen'[c][v] < n /\ seen'[c][v] \in Nat /\ seen[c][v] <= seen'[c][v]
    <3>1. CASE v # f
      BY <1>3, <2>1, <2>2, <3>1
    <3>2. CASE v = f
      <4>1. 1 \in 1 .. i /\ send[c][1] = [feed |-> f, at |-> k]
        <5>1. send[c][1] \in Entry
          BY <1>1, <1>2, <1>q, <1>t, TailFacts
        <5> QED
          BY <1>h, <1>q, <2>1, <5>1 DEF Entry
      <4>2. Queued(c, v, k, i)
        BY <3>2, <4>1 DEF Queued
      <4>3. ~(k \in n .. Len(fanned[f]))
        BY <2>2, <3>2, <4>2
      <4>4. k < n
        BY <1>h, <1>t, <2>1, <4>3
      <4> QED
        BY <1>3, <1>h, <2>1, <3>2, <4>4
    <3> QED
      BY <3>1, <3>2
  <2>4. \A x \in seen'[c][v] + 1 .. n - 1 : Queued(c, v, x, i - 1)'
    <3> SUFFICES ASSUME NEW x \in seen'[c][v] + 1 .. n - 1 PROVE Queued(c, v, x, i - 1)'
      OBVIOUS
    <3>1. x \in seen[c][v] + 1 .. n - 1 /\ x \in Nat /\ x > seen'[c][v]
      BY <2>1, <2>3
    <3> QED
      BY <1>6, <2>1, <2>2, <3>1
  <2>5. ~ \E x \in n .. Len(fanned[v]) : Queued(c, v, x, i - 1)'
    BY <1>7, <2>1, <2>2
  <2>6. InTurn(c, v, n, i - 1)'
    BY <1>1, <2>2, <2>3, <2>4, <2>5 DEF InTurn
  <2>7. v = send'[c][i].feed /\ n = send'[c][i].at
    BY <1>i, <2>0
  <2> QED
    BY <2>6, <2>7
<1>9. InOrder(c)'
  BY <1>8, <1>l DEF InOrder
<1>10. ASSUME NEW v \in Conns, UpToDate(c, v) PROVE UpToDate(c, v)'
  <2>1. ASSUME NEW n \in seen'[c][v] + 1 .. Len(fanned[v])
        PROVE  Queued(c, v, n, Len(q) - 1)' \/ (n = Len(fanned[v]) /\ c \in todo[v])
    <3>1. seen[c][v] \in Nat /\ seen'[c][v] \in Nat /\ seen[c][v] <= seen'[c][v]
      <4>1. seen[c][v] \in Nat
        BY <1>t
      <4>2. CASE v = f
        BY <1>3, <1>h, <4>1, <4>2
      <4>3. CASE v # f
        BY <1>3, <4>1, <4>3
      <4> QED
        BY <4>2, <4>3
    <3>2. n \in seen[c][v] + 1 .. Len(fanned[v]) /\ n \in Nat /\ n > seen'[c][v]
      BY <1>t, <3>1
    <3>3. Len(q) \in 1 .. Len(q)
      BY <1>2
    <3> QED
      BY <1>10, <1>6, <1>q, <3>2, <3>3 DEF UpToDate
  <2> QED
    BY <1>1, <1>l, <2>1 DEF UpToDate
<1>11. ASSUME NEW d \in Conns, d # c
       PROVE  /\ InOrder(d) => InOrder(d)'
              /\ \A v \in Conns : UpToDate(d, v) => UpToDate(d, v)'
  BY <1>1, <1>3, <1>11, InOrderStays, UpToDateStays
<1>12. NoGap'
  <2> SUFFICES ASSUME NEW d \in Conns, writer[d] # "ended"
               PROVE  /\ InOrder(d)'
                      /\ d \in rooms[url[d]] /\ ~closed[d] =>
                           \A v \in Conns : url[v] = url[d] => UpToDate(d, v)'
    BY <1>1 DEF NoGap
  <2>1. /\ InOrder(d)
        /\ d \in rooms[url[d]] /\ ~closed[d] =>
             \A v \in Conns : url[v] = url[d] => UpToDate(d, v)
    BY DEF QueueInv, NoGap
  <2> QED
    BY <1>9, <1>10, <1>11, <2>1
<1>13. Cut'
  <2>1. Len(q) <= offered[c] /\ offered[c] \in Nat
    BY <1>q, <1>t DEF QueueInv, Cut
  <2>2. Len(send'[c]) <= offered[c]
    BY <1>2, <1>l, <2>1
  <2> QED
    BY <1>1, <1>3, <2>2 DEF QueueInv, Cut
<1> QED
  BY <1>4, <1>5, <1>12, <1>13 DEF QueueInv

\* A writer that ends takes the queue's obligations with it.
LEMMA WriterEnds ==
  ASSUME IInv, DTypeOK, QueueInv, NEW c \in Conns, WriteFails(c) \/ WriterCloses(c)
  PROVE  QueueInv'
<1>1. /\ writer[c] = "running" /\ writer' = [writer EXCEPT ![c] = "ended"] /\ ~crashed'
      /\ (send' = [send EXCEPT ![c] = Tail(@)] /\ send[c] # <<>>) \/ UNCHANGED send
      /\ UNCHANGED <<url, rooms, handler, closed, offered, fanned, todo, seen>>
  <2>1. CASE WriteFails(c)
    <3>1. CASE send[c] = <<>>
      BY <2>1, <3>1 DEF DTypeOK, WriteFails, vars, fanVars, queueVars
    <3>2. CASE send[c] # <<>>
      BY <2>1, <3>2 DEF WriteFails, vars, fanVars, queueVars
    <3> QED
      BY <3>1, <3>2
  <2>2. CASE WriterCloses(c)
    BY <2>2 DEF WriterCloses, vars, queueVars, fanVars
  <2> QED
    BY <2>1, <2>2
<1>t. /\ send \in [Conns -> Seq(Entry)] /\ offered \in [Conns -> Nat]
      /\ writer \in [Conns -> {"none", "running", "ended"}]
  BY DEF DTypeOK
<1>2. /\ \A d \in Conns \ {c} : send'[d] = send[d] /\ writer'[d] = writer[d]
      /\ writer'[c] = "ended"
      /\ send'[c] = send[c] \/ (send[c] # <<>> /\ send'[c] = Tail(send[c]))
  BY <1>1, <1>t
<1>3. /\ Len(send[c]) \in Nat /\ Len(send'[c]) <= Len(send[c])
      /\ \A i \in 1 .. Len(send'[c]) : \E j \in 1 .. Len(send[c]) : send'[c][i] = send[c][j]
  <2>1. Len(send[c]) \in Nat
    BY <1>t, LenProperties
  <2>2. CASE send'[c] = send[c]
    BY <2>1, <2>2
  <2>3. CASE send[c] # <<>> /\ send'[c] = Tail(send[c])
    <3>1. /\ Len(send'[c]) = Len(send[c]) - 1
          /\ \A i \in 1 .. Len(send[c]) - 1 : send'[c][i] = send[c][i + 1]
      BY <1>t, <2>3, TailFacts
    <3>2. \A i \in 1 .. Len(send[c]) - 1 : i + 1 \in 1 .. Len(send[c])
      BY <2>1
    <3> QED
      BY <2>1, <3>1, <3>2
  <2> QED
    BY <1>2, <2>2, <2>3
<1>4. Reached' /\ NotYet'
  BY <1>1, <1>2 DEF QueueInv, Reached, NotYet
<1>5. ASSUME NEW d \in Conns PROVE Placed(d)'
  <2>1. CASE d # c
    BY <1>1, <1>2, <2>1 DEF QueueInv, Placed
  <2>2. CASE d = c
    <3>1. Placed(c)
      BY DEF QueueInv
    <3>2. \A i \in 1 .. Len(send'[c]) : send'[c][i].at <= Len(fanned[send'[c][i].feed])
      BY <1>3, <3>1 DEF Placed
    <3>3. \A v \in Conns : c \in todo[v] => \A i \in 1 .. Len(send'[c]) :
            send'[c][i].feed = v => send'[c][i].at < Len(fanned[v])
      BY <1>3, <3>1 DEF Placed
    <3> QED
      BY <1>1, <2>2, <3>1, <3>2, <3>3 DEF Placed
  <2> QED
    BY <2>1, <2>2
<1>6. \A d \in Conns \ {c} : InOrder(d) => InOrder(d)'
  BY <1>1, <1>2, InOrderStays
<1>7. \A d \in Conns \ {c}, v \in Conns : UpToDate(d, v) => UpToDate(d, v)'
  BY <1>1, <1>2, UpToDateStays
<1>8. NoGap'
  BY <1>1, <1>2, <1>6, <1>7 DEF QueueInv, NoGap
<1>9. Cut'
  <2>1. Len(send[c]) <= offered[c] /\ offered[c] \in Nat
    BY <1>t DEF QueueInv, Cut
  <2>2. Len(send'[c]) \in Nat
    BY <1>3, <1>2, <1>t, TailFacts, LenProperties
  <2>3. Len(send'[c]) <= offered[c]
    BY <1>3, <2>1, <2>2
  <2> QED
    BY <1>1, <1>2, <2>3 DEF QueueInv, Cut
<1> QED
  BY <1>4, <1>5, <1>8, <1>9 DEF QueueInv

LEMMA NextQueues ==
  ASSUME IInv, DTypeOK, OneAtATime, QueueInv, [DNext]_allVars
  PROVE  QueueInv'
<1>1. ASSUME NEW c \in Conns, Connection(c) PROVE QueueInv'
  BY <1>1, ConnectionQueues, JoinQueues
<1>2. ASSUME NEW w \in Conns, Subscriber(w) PROVE QueueInv'
  <2>1. ASSUME NEW c \in Conns, Enqueue(w, c) PROVE QueueInv'
    BY <2>1, EnqueueCloses, EnqueueQueues
  <2> QED
    BY <1>2, <2>1, StoringQueues, FanOutQueues, PanicQueues DEF Subscriber, Consume
<1>3. ASSUME NEW c \in Conns, WritePump(c) PROVE QueueInv'
  BY <1>3, WriteQueues, WriterEnds DEF WritePump
<1>4. CASE UNCHANGED allVars
  <2>1. UNCHANGED <<url, rooms, handler, send, closed, offered, fanned, todo, writer, seen, crashed>>
    BY <1>4 DEF allVars, vars, deliveryVars, clientVars, queueVars, writeVars, fanVars
  <2>2. Reached' /\ NotYet' /\ Cut'
    BY <2>1 DEF QueueInv, Reached, NotYet, Cut
  <2>3. \A d \in Conns : Placed(d)'
    BY <2>1 DEF QueueInv, Placed
  <2>4. NoGap'
    <3>1. \A d \in Conns : InOrder(d) => InOrder(d)'
      BY <2>1, InOrderStays
    <3>2. \A d, v \in Conns : UpToDate(d, v) => UpToDate(d, v)'
      BY <2>1, UpToDateStays
    <3> QED
      BY <2>1, <3>1, <3>2 DEF QueueInv, NoGap
  <2> QED
    BY <2>2, <2>3, <2>4 DEF QueueInv
<1> QED
  BY <1>1, <1>2, <1>3, <1>4, TalkQueues DEF DNext

\* Every step keeps the invariant.
LEMMA NextDInv == ASSUME DInv, [DNext]_allVars PROVE DInv'
<1>1. IInv'
  <2>1. IInv /\ [Next]_vars
    BY DNextIsNext DEF DInv
  <2> QED
    BY <2>1, NextIInv
<1>2. TypeOK'
  BY <1>1 DEF IInv
<1>3. DTypeOK' /\ OneAtATime' /\ AllKept' /\ QueueInv'
  BY <1>2, NextTyped, NextOneAtATime, NextKept, NextQueues DEF DInv
<1> QED
  BY <1>1, <1>3 DEF DInv

-----------------------------------------------------------------------------
\* The inductive invariant holds in every reachable state.
THEOREM DeliveryInv == DSpec => []DInv
<1>1. DInv /\ [DNext]_allVars => DInv'
  BY NextDInv
<1> QED
  BY <1>1, InitDInv, PTL DEF DSpec

\* The queues, the history and the counters keep their types, and enqueueToRoom
\* never lets a queue grow beyond its capacity, however many subscribers call it.
THEOREM DeliveryTypeCorrect == DSpec => []DTypeOK
<1>1. DInv => DTypeOK
  BY DEF DInv
<1> QED
  BY <1>1, DeliveryInv, PTL

\* enqueueToRoom closes a client rather than skip a message: whatever the sizes of
\* the queues, however joins, leaves and failing writes overlap, and however many
\* subscribers enqueue at the same time, a client's queue continues what it has been
\* written of each subscriber's messages, and lacks none while the client is open.
THEOREM NothingIsSkipped == DSpec => []NoGap
<1>1. DInv => NoGap
  BY DEF DInv, QueueInv
<1> QED
  BY <1>1, DeliveryInv, PTL

\* runSubscription stores before it fans out, so what a client has seen live is in
\* the history, unless LPush failed for it or the list is long enough to be cut.
THEOREM WhatIsSeenIsStored == DSpec => []SeenIsStored
<1>1. DInv => SeenIsStored
  BY DEF DInv, AllKept, Kept, SeenIsStored
<1> QED
  BY <1>1, DeliveryInv, PTL

\* A member whose channel is closed was offered more than its queue holds, and only
\* such a member makes enqueueToRoom panic, for every capacity and any interleaving.
THEOREM CutOffIsSlow == DSpec => []OnlyTheSlowAreCut
<1>1. DInv => OnlyTheSlowAreCut
  BY DEF DInv, QueueInv, Cut, OnlyTheSlowAreCut
<1> QED
  BY <1>1, DeliveryInv, PTL

-----------------------------------------------------------------------------
(* RoomLog is implemented: joining enters, fanning out posts, writing shows, *)
(* and nothing else is seen.                                                 *)

LEMMA JoinEnters ==
  ASSUME DInv, NEW c \in Conns, DJoin(c)
  PROVE  Log!Enter(c, url[c])
<1>1. /\ handler \in [Conns -> {"new", "accepted", "joined", "started", "done"}]
      /\ seen \in [Conns -> [Conns -> Nat]]
  BY DEF DInv, DTypeOK, TypeOK
<1>2. /\ handler[c] = "accepted"
      /\ handler' = [handler EXCEPT ![c] = "joined"]
      /\ UNCHANGED url
  BY DEF DJoin, Join
<1>3. Entered[c] = None /\ Entered' = [Entered EXCEPT ![c] = url[c]]
  BY <1>1, <1>2 DEF Entered
<1>4. /\ seen' = [seen EXCEPT ![c] = [w \in Conns |-> Len(fanned[w])]]
      /\ UNCHANGED fanned
  BY DEF DJoin, fanVars
<1> QED
  BY <1>2, <1>3, <1>4 DEF Log!Enter

LEMMA FanOutPosts ==
  ASSUME DInv, NEW w \in Conns, FanOut(w)
  PROVE  \E m \in Message : Log!Post(w, m)
<1>1. work[w] \in Seq(Message) /\ Len(work[w]) <= 1 /\ fanned \in [Conns -> Seq(Message)]
  BY DEF DInv, DTypeOK, OneAtATime
<1>2. work[w] # <<>> /\ fanned' = [fanned EXCEPT ![w] = @ \o work[w]]
  BY DEF FanOut
<1>3. UNCHANGED <<seen, handler, url>>
  BY DEF FanOut, vars, clientVars, writeVars
<1>4. work[w] = <<Head(work[w])>> /\ Head(work[w]) \in Message
  BY <1>1, <1>2, OneIsHead
<1>5. fanned' = [fanned EXCEPT ![w] = Append(@, Head(work[w]))]
  BY <1>1, <1>2, <1>4, AppendIsConcat
<1>6. UNCHANGED Entered
  BY <1>3 DEF Entered
<1> QED
  BY <1>3, <1>4, <1>5, <1>6 DEF Log!Post

LEMMA WriteShows ==
  ASSUME DInv, NEW c \in Conns, Write(c)
  PROVE  \E f \in Conns : Log!Show(c, f)
<1>0. PICK f, k : f = Head(send[c]).feed /\ k = Head(send[c]).at
  OBVIOUS
<1>1. /\ writer[c] = "running" /\ send[c] # <<>>
      /\ seen' = [seen EXCEPT ![c][f] = k]
      /\ UNCHANGED <<handler, url, fanned>>
  BY <1>0 DEF Write, WriteHead, vars, fanVars
<1>2. /\ f \in Conns /\ url[f] = url[c] /\ k = seen[c][f] + 1 /\ k <= Len(fanned[f])
  BY <1>0, <1>1, HeadIsNext DEF DInv
<1>3. handler[c] \notin {"new", "accepted"}
  BY <1>1 DEF DInv, QueueInv, NotYet
<1>4. Entered[c] = url[c] /\ UNCHANGED Entered
  BY <1>1, <1>3 DEF Entered
<1>5. seen \in [Conns -> [Conns -> Nat]] /\ Len(fanned[f]) \in Nat
  BY <1>2, LenProperties DEF DInv, DTypeOK
<1>6. seen[c][f] \in Nat
  BY <1>2, <1>5
<1>7. seen[c][f] < Len(fanned[f])
  BY <1>2, <1>5, <1>6
<1>8. seen' = [seen EXCEPT ![c][f] = @ + 1]
  BY <1>1, <1>2
<1> QED
  BY <1>1, <1>2, <1>4, <1>7, <1>8 DEF Log!Show

\* Every other step leaves the logs and what is seen of them alone.
LEMMA OthersStutter ==
  ASSUME DInv, NEW c \in Conns,
         \/ Connection(c) /\ ~DJoin(c)
         \/ Talk(c)
         \/ Subscriber(c) /\ ~FanOut(c)
         \/ WritePump(c) /\ ~Write(c)
  PROVE  UNCHANGED Log!vars
<1>1. handler \in [Conns -> {"new", "accepted", "joined", "started", "done"}]
  BY DEF DInv, DTypeOK, TypeOK
<1>2. /\ UNCHANGED <<fanned, seen, url>>
      /\ \A d \in Conns : handler'[d] \in {"new", "accepted"} <=> handler[d] \in {"new", "accepted"}
  <2>1. CASE DAccept(c)
    BY <1>1, <2>1 DEF DAccept, Accept, deliveryVars, clientVars, writeVars, fanVars
  <2>2. CASE DStartPumps(c) \/ DLeave(c) \/ DStopClose(c) \/ Unaffected(c)
    BY <1>1, <2>2 DEF DStartPumps, DLeave, DStopClose, Unaffected, Leave,
       StartPumps, KeepSubscription, StartSubscription, StopNotNeeded, StopCheck,
       StopClear, StopClose, Subscribe, Register, connVars, deliveryVars, clientVars,
       writeVars, fanVars
  <2>3. CASE Talk(c)
    BY <2>3 DEF Talk, SendEvent, AnnounceJoin, CloseClient, AnnounceLeave, vars,
       connVars, clientVars, writeVars, fanVars
  <2>4. CASE Subscriber(c) /\ ~FanOut(c)
    BY <2>4 DEF Subscriber, Consume, RedisSubscribed, DGiveUp, DFinish, TakeLive, LPush,
       LPushFails, LTrim, Enqueue, EnqueuePanics, GiveUp, Finish, vars, connVars,
       deliveryVars, clientVars, writeVars, fanVars
  <2>5. CASE WritePump(c) /\ ~Write(c)
    BY <2>5 DEF WritePump, WriteFails, WriterCloses, vars, connVars, fanVars
  <2> QED
    BY <2>1, <2>2, <2>3, <2>4, <2>5 DEF Connection
<1>3. UNCHANGED Entered
  BY <1>2 DEF Entered
<1> QED
  BY <1>2, <1>3 DEF Log!vars

\* Subscribers, bounded queues and writers implement the feeds of RoomLog: of each
\* subscriber of its room a client is shown, from its join on, every message in
\* turn, with any number of clients, subscribers and enqueueToRoom calls at a time.
THEOREM RefinesRoomLog == DSpec => ImplementsRoomLog
<1>1. DInit => Log!Init
  BY DEF DInit, Init, Entered, Log!Init
<1>2. DInv /\ [DNext]_allVars => [Log!Next]_(Log!vars)
  <2> SUFFICES ASSUME DInv, [DNext]_allVars
               PROVE  Log!Next \/ UNCHANGED Log!vars
    OBVIOUS
  <2>1. ASSUME NEW c \in Conns, DJoin(c) PROVE Log!Next
    BY <2>1, JoinEnters DEF Log!Next, DInv, DTypeOK, TypeOK
  <2>2. ASSUME NEW w \in Conns, FanOut(w) PROVE Log!Next
    BY <2>2, FanOutPosts DEF Log!Next
  <2>3. ASSUME NEW c \in Conns, Write(c) PROVE Log!Next
    BY <2>3, WriteShows DEF Log!Next
  <2>4. CASE UNCHANGED allVars
    BY <2>4 DEF allVars, vars, connVars, deliveryVars, clientVars, writeVars, fanVars,
       Entered, Log!vars
  <2>5. CASE DNext
    BY <2>1, <2>2, <2>3, <2>5, OthersStutter DEF DNext
  <2> QED
    BY <2>4, <2>5
<1> QED
  BY <1>1, <1>2, DeliveryInv, PTL DEF DSpec, Log!Spec, ImplementsRoomLog

\* With the delivery steps added, a room still has one feed (RoomFeed).
THEOREM DeliveryRefinesRoomFeed == DSpec => ImplementsRoomFeed
  BY DeliveryFollowsTheProtocol, RefinesRoomFeed
=============================================================================
