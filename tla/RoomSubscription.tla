-------------------------- MODULE RoomSubscription --------------------------
(***************************************************************************)
(* The life of a room's Redis subscription on one chat server              *)
(* (src/apps/app/server/main.go).                                          *)
(*                                                                         *)
(* Three kinds of goroutine share the tables: handleConnections, which     *)
(* registers a WebSocket and makes sure its room has a subscription;       *)
(* readPump, which on disconnect removes the client and stops the          *)
(* subscription of a room it left empty; and runSubscription, one per      *)
(* subscription started.  A step is what one goroutine does between two    *)
(* points where another can see its effects: a critical section, or a call *)
(* to Redis.  gracefulShutdown is the fourth actor.                        *)
(*                                                                         *)
(* A member of Conns is one *client of the code: allocated by one call of  *)
(* handleConnections and never reused, so a user who reconnects is another *)
(* member.  The subscriber goroutine started by c's handler, and its       *)
(* *redis.PubSub, are both named c: a handler starts at most one.          *)
(***************************************************************************)
EXTENDS Naturals, FiniteSets

CONSTANTS
  Conns,   \* WebSocket connections
  Rooms,   \* room names
  None     \* Go's nil, and a free lock

ASSUME NoneAssumption == None \notin Conns

VARIABLES
  url,            \* url[c]: the room named in c's request
  handler,        \* handler[c]: how far c's handleConnections got
  pump,           \* pump[c]: how far c's readPump got
  worker,         \* worker[c]: how far the runSubscription c started got
  gen,            \* gen[c]: the generation that runSubscription was given
  taken,          \* taken[c]: the PubSub c's stopSubscriptionIfEmpty must close
  rooms,          \* rooms[r]: the registered clients of r (roomsLock)
  subLock,        \* the connection whose readPump holds subLock, or None
  subscriptions,  \* subscriptions[r]: r has, or is about to have, a subscriber
  subGen,         \* the last generation handed out, on any room
  subGens,        \* subGens[r]: the current generation of r, 0 if none
  roomSubs,       \* roomSubs[r]: the registered PubSub of r (roomSubsMu)
  psClosed,       \* the PubSubs that have been closed
  phase           \* gracefulShutdown: "running", "shutting", "subsClosed"

connVars == <<url, handler, pump>>
flagVars == <<subscriptions, subGen, subGens>>
workVars == <<worker, gen>>
psVars   == <<roomSubs, psClosed, taken>>
vars == <<url, handler, pump, worker, gen, taken, rooms, subLock,
          subscriptions, subGen, subGens, roomSubs, psClosed, phase>>

-----------------------------------------------------------------------------
Init ==
  /\ url \in [Conns -> Rooms]
  /\ handler = [c \in Conns |-> "new"]
  /\ pump = [c \in Conns |-> "none"]
  /\ worker = [c \in Conns |-> "none"]
  /\ gen = [c \in Conns |-> 0]
  /\ taken = [c \in Conns |-> None]
  /\ rooms = [r \in Rooms |-> {}]
  /\ subLock = None
  /\ subscriptions = [r \in Rooms |-> FALSE]
  /\ subGen = 0
  /\ subGens = [r \in Rooms |-> 0]
  /\ roomSubs = [r \in Rooms |-> None]
  /\ psClosed = {}
  /\ phase = "running"

-----------------------------------------------------------------------------
(* handleConnections.                                                      *)

\* The shutdown flag is read once, on entry.  The rest of the admission
\* (token, room lease, upgrade) changes nothing here; a refused request is a
\* connection that never takes another step.
Accept(c) ==
  /\ handler[c] = "new"
  /\ phase = "running"
  /\ handler' = [handler EXCEPT ![c] = "accepted"]
  /\ UNCHANGED <<url, pump, rooms, subLock, phase, flagVars, workVars, psVars>>

Join(c) ==
  /\ handler[c] = "accepted"
  /\ handler' = [handler EXCEPT ![c] = "joined"]
  /\ rooms' = [rooms EXCEPT ![url[c]] = @ \cup {c}]
  /\ UNCHANGED <<url, pump, subLock, phase, flagVars, workVars, psVars>>

\* The pumps run from here on, before the handler has looked at the
\* subscription table.
StartPumps(c) ==
  /\ handler[c] = "joined"
  /\ handler' = [handler EXCEPT ![c] = "started"]
  /\ pump' = [pump EXCEPT ![c] = "reading"]
  /\ UNCHANGED <<url, rooms, subLock, phase, flagVars, workVars, psVars>>

KeepSubscription(c) ==
  /\ handler[c] = "started"
  /\ subLock = None
  /\ subscriptions[url[c]]
  /\ handler' = [handler EXCEPT ![c] = "done"]
  /\ UNCHANGED <<url, pump, rooms, subLock, phase, flagVars, workVars, psVars>>

\* Mutant: a restarted subscription reuses the generation of the last one.
StartSubscriptionSameGen(c) ==
  /\ handler[c] = "started"
  /\ subLock = None
  /\ ~subscriptions[url[c]]
  /\ handler' = [handler EXCEPT ![c] = "done"]
  /\ subscriptions' = [subscriptions EXCEPT ![url[c]] = TRUE]
  /\ subGen' = 1
  /\ subGens' = [subGens EXCEPT ![url[c]] = 1]
  /\ gen' = [gen EXCEPT ![c] = 1]
  /\ worker' = [worker EXCEPT ![c] = "spawned"]
  /\ UNCHANGED <<url, pump, rooms, subLock, phase, psVars>>

\* Mutant: the goroutine is handed the counter as it was before the increment.
StartSubscriptionOldGen(c) ==
  /\ handler[c] = "started"
  /\ subLock = None
  /\ ~subscriptions[url[c]]
  /\ handler' = [handler EXCEPT ![c] = "done"]
  /\ subscriptions' = [subscriptions EXCEPT ![url[c]] = TRUE]
  /\ subGen' = subGen + 1
  /\ subGens' = [subGens EXCEPT ![url[c]] = subGen + 1]
  /\ gen' = [gen EXCEPT ![c] = subGen]
  /\ worker' = [worker EXCEPT ![c] = "spawned"]
  /\ UNCHANGED <<url, pump, rooms, subLock, phase, psVars>>

StartSubscription(c) ==
  /\ handler[c] = "started"
  /\ subLock = None
  /\ ~subscriptions[url[c]]
  /\ handler' = [handler EXCEPT ![c] = "done"]
  /\ subscriptions' = [subscriptions EXCEPT ![url[c]] = TRUE]
  /\ subGen' = subGen + 1
  /\ subGens' = [subGens EXCEPT ![url[c]] = subGen + 1]
  /\ gen' = [gen EXCEPT ![c] = subGen + 1]
  /\ worker' = [worker EXCEPT ![c] = "spawned"]
  /\ UNCHANGED <<url, pump, rooms, subLock, phase, psVars>>

-----------------------------------------------------------------------------
(* readPump's deferred clean-up, and stopSubscriptionIfEmpty.              *)

\* The read fails: the peer left, the deadline passed, the server closed.
Leave(c) ==
  /\ pump[c] = "reading"
  /\ pump' = [pump EXCEPT ![c] = "left"]
  /\ rooms' = [rooms EXCEPT ![url[c]] = @ \ {c}]
  /\ UNCHANGED <<url, handler, subLock, phase, flagVars, workVars, psVars>>

StopNotNeeded(c) ==
  /\ pump[c] = "left"
  /\ subLock = None
  /\ rooms[url[c]] # {} \/ ~subscriptions[url[c]]
  /\ pump' = [pump EXCEPT ![c] = "gone"]
  /\ UNCHANGED <<url, handler, rooms, subLock, phase, flagVars, workVars, psVars>>

\* Mutant: the emptiness check without holding subLock until the flag clears.
StopCheckUnlocked(c) ==
  /\ pump[c] = "left"
  /\ subLock = None
  /\ rooms[url[c]] = {} /\ subscriptions[url[c]]
  /\ pump' = [pump EXCEPT ![c] = "stopping"]
  /\ UNCHANGED <<url, handler, rooms, subLock, phase, flagVars, workVars, psVars>>

\* The room is empty under roomsLock.  subLock stays held, roomsLock does not:
\* a client may Join before StopClear.
StopCheck(c) ==
  /\ pump[c] = "left"
  /\ subLock = None
  /\ rooms[url[c]] = {} /\ subscriptions[url[c]]
  /\ subLock' = c
  /\ pump' = [pump EXCEPT ![c] = "stopping"]
  /\ UNCHANGED <<url, handler, rooms, phase, flagVars, workVars, psVars>>

\* Mutant: the flag is cleared but the PubSub is not taken out for closing.
StopClearKeepsPubSub(c) ==
  /\ pump[c] = "stopping"
  /\ pump' = [pump EXCEPT ![c] = "closing"]
  /\ subscriptions' = [subscriptions EXCEPT ![url[c]] = FALSE]
  /\ subGens' = [subGens EXCEPT ![url[c]] = 0]
  /\ subLock' = None
  /\ UNCHANGED <<url, handler, rooms, phase, subGen, workVars, psVars>>

StopClear(c) ==
  /\ pump[c] = "stopping"
  /\ pump' = [pump EXCEPT ![c] = "closing"]
  /\ subscriptions' = [subscriptions EXCEPT ![url[c]] = FALSE]
  /\ subGens' = [subGens EXCEPT ![url[c]] = 0]
  /\ taken' = [taken EXCEPT ![c] = roomSubs[url[c]]]
  /\ roomSubs' = [roomSubs EXCEPT ![url[c]] = None]
  /\ subLock' = None
  /\ UNCHANGED <<url, handler, rooms, phase, subGen, workVars, psClosed>>

\* Mutant: the PubSub is taken out and dropped, not closed.
StopCloseForgets(c) ==
  /\ pump[c] = "closing"
  /\ pump' = [pump EXCEPT ![c] = "gone"]
  /\ taken' = [taken EXCEPT ![c] = None]
  /\ UNCHANGED <<url, handler, rooms, subLock, phase, flagVars, workVars,
                 roomSubs, psClosed>>

\* Mutant: a room without a registered PubSub has nil closed.
StopCloseNil(c) ==
  /\ pump[c] = "closing"
  /\ pump' = [pump EXCEPT ![c] = "gone"]
  /\ psClosed' = psClosed \cup {taken[c]}
  /\ taken' = [taken EXCEPT ![c] = None]
  /\ UNCHANGED <<url, handler, rooms, subLock, phase, flagVars, workVars, roomSubs>>

\* ps.Close() happens after subLock is released.
StopClose(c) ==
  /\ pump[c] = "closing"
  /\ pump' = [pump EXCEPT ![c] = "gone"]
  /\ psClosed' = psClosed \cup ({taken[c]} \ {None})
  /\ taken' = [taken EXCEPT ![c] = None]
  /\ UNCHANGED <<url, handler, rooms, subLock, phase, flagVars, workVars, roomSubs>>

-----------------------------------------------------------------------------
(* runSubscription.  Its context is context.Background(), never cancelled. *)

Subscribe(c) ==
  /\ worker[c] = "spawned"
  /\ worker' = [worker EXCEPT ![c] = "open"]
  /\ UNCHANGED <<connVars, gen, rooms, subLock, phase, flagVars, psVars>>

\* Its generation is still the room's.
Current(c) == subscriptions[url[c]] /\ subGens[url[c]] = gen[c]

\* Mutant: the registration check without the generation comparison.
RegisterAnyGen(c) ==
  /\ worker[c] = "open"
  /\ subLock = None
  /\ subscriptions[url[c]]
  /\ roomSubs' = [roomSubs EXCEPT ![url[c]] = c]
  /\ worker' = [worker EXCEPT ![c] = "serving"]
  /\ UNCHANGED <<connVars, gen, rooms, subLock, phase, flagVars, psClosed, taken>>

Register(c) ==
  /\ worker[c] = "open"
  /\ subLock = None
  /\ Current(c)
  /\ roomSubs' = [roomSubs EXCEPT ![url[c]] = c]
  /\ worker' = [worker EXCEPT ![c] = "serving"]
  /\ UNCHANGED <<connVars, gen, rooms, subLock, phase, flagVars, psClosed, taken>>

GiveUp(c) ==
  /\ worker[c] = "open"
  /\ subLock = None
  /\ ~Current(c)
  /\ worker' = [worker EXCEPT ![c] = "rejected"]
  /\ psClosed' = psClosed \cup {c}
  /\ UNCHANGED <<connVars, gen, rooms, subLock, phase, flagVars, roomSubs, taken>>

\* Mutant: the clean-up clears the room's entries without asking whose they are.
FinishClearsAll(c) ==
  /\ worker[c] = "serving"
  /\ c \in psClosed
  /\ subLock = None
  /\ worker' = [worker EXCEPT ![c] = "ended"]
  /\ roomSubs' = [roomSubs EXCEPT ![url[c]] = None]
  /\ subscriptions' = [subscriptions EXCEPT ![url[c]] = FALSE]
  /\ subGens' = [subGens EXCEPT ![url[c]] = 0]
  /\ UNCHANGED <<connVars, gen, rooms, subLock, phase, subGen, psClosed, taken>>

\* The message channel of a closed PubSub is closed: the loop returns and the
\* deferred clean-up clears the room's entries, if they are still its own.
Finish(c) ==
  /\ worker[c] = "serving"
  /\ c \in psClosed
  /\ subLock = None
  /\ worker' = [worker EXCEPT ![c] = "ended"]
  /\ IF roomSubs[url[c]] = c
     THEN /\ roomSubs' = [roomSubs EXCEPT ![url[c]] = None]
          /\ subscriptions' = [subscriptions EXCEPT ![url[c]] = FALSE]
          /\ subGens' = [subGens EXCEPT ![url[c]] = 0]
     ELSE UNCHANGED <<roomSubs, subscriptions, subGens>>
  /\ UNCHANGED <<connVars, gen, rooms, subLock, phase, subGen, psClosed, taken>>

-----------------------------------------------------------------------------
(* gracefulShutdown, as far as it touches this state.                      *)

BeginShutdown ==
  /\ phase = "running"
  /\ phase' = "shutting"
  /\ UNCHANGED <<connVars, rooms, subLock, flagVars, workVars, psVars>>

\* Under roomSubsMu: close and forget every registered PubSub.
CloseRoomSubs ==
  /\ phase = "shutting"
  /\ phase' = "subsClosed"
  /\ psClosed' = psClosed \cup ({roomSubs[r] : r \in Rooms} \ {None})
  /\ roomSubs' = [r \in Rooms |-> None]
  /\ UNCHANGED <<connVars, rooms, subLock, flagVars, workVars, taken>>

-----------------------------------------------------------------------------
Handle(c) == Accept(c) \/ Join(c) \/ StartPumps(c)
             \/ KeepSubscription(c) \/ StartSubscription(c)
TearDown(c) == StopNotNeeded(c) \/ StopCheck(c) \/ StopClear(c) \/ StopClose(c)
RunSubscription(c) == Subscribe(c) \/ Register(c) \/ GiveUp(c) \/ Finish(c)
Shutdown == BeginShutdown \/ CloseRoomSubs

Next ==
  \/ \E c \in Conns : Handle(c) \/ Leave(c) \/ TearDown(c) \/ RunSubscription(c)
  \/ Shutdown

Spec == Init /\ [][Next]_vars

\* Goroutines run and the mutexes are fair (a waiter that has waited 1ms is
\* served first); every connection is used once, so subLock is in the end free
\* for good and weak fairness is enough.  Nothing forces a peer to connect or to
\* leave, or a shutdown.
FairSpec ==
  /\ Spec
  /\ \A c \in Conns :
       /\ WF_vars(StartPumps(c) \/ KeepSubscription(c) \/ StartSubscription(c))
       /\ WF_vars(TearDown(c))
       /\ WF_vars(RunSubscription(c))

-----------------------------------------------------------------------------
(* Properties.                                                             *)

TypeOK ==
  /\ url \in [Conns -> Rooms]
  /\ handler \in [Conns -> {"new", "accepted", "joined", "started", "done"}]
  /\ pump \in [Conns -> {"none", "reading", "left", "stopping", "closing", "gone"}]
  /\ worker \in [Conns -> {"none", "spawned", "open", "rejected", "serving", "ended"}]
  /\ gen \in [Conns -> Nat]
  /\ taken \in [Conns -> Conns \cup {None}]
  /\ rooms \in [Rooms -> SUBSET Conns]
  /\ subLock \in Conns \cup {None}
  /\ subscriptions \in [Rooms -> BOOLEAN]
  /\ subGen \in Nat
  /\ subGens \in [Rooms -> Nat]
  /\ roomSubs \in [Rooms -> Conns \cup {None}]
  /\ psClosed \in SUBSET Conns
  /\ phase \in {"running", "shutting", "subsClosed"}

\* Someone is still going to close c's PubSub.
BeingClosed(c) == \E d \in Conns : pump[d] = "closing" /\ taken[d] = c

\* A subscriber that got past its registration check and has not been closed is
\* the registered one of its room, or a readPump is on its way to closing it.
\* This is the "orphaned subscriber delivering duplicates" runSubscription's
\* generation check is there to exclude.
NoOrphanSubscriber ==
  \A c \in Conns :
    worker[c] = "serving" /\ c \notin psClosed =>
      roomSubs[url[c]] = c \/ BeingClosed(c)

\* A client whose handler is past the subscription table sits in a room whose
\* subscription is switched on: the emptiness check of stopSubscriptionIfEmpty
\* never takes the subscription away from under a joined client.
JoinedRoomIsSubscribed ==
  \A c \in Conns :
    handler[c] = "done" /\ c \in rooms[url[c]] => subscriptions[url[c]]

\* A registered PubSub is open and of its room's current generation, so the one
\* the next stop takes out is the one the flag stands for.
RegisteredIsCurrent ==
  \A r \in Rooms :
    LET c == roomSubs[r] IN
    c # None => /\ url[c] = r /\ worker[c] = "serving" /\ c \notin psClosed
                /\ subscriptions[r] /\ subGens[r] = gen[c]

\* Registering never displaces another subscriber's PubSub, and a PubSub that
\* was taken out never comes back: the room's feed as RoomFeed states it.
Feed == INSTANCE RoomFeed WITH
          Feeds <- Conns, Rooms <- Rooms, None <- None,
          feed <- roomSubs,
          used <- {c \in Conns : worker[c] \in {"serving", "ended"}}
ImplementsRoomFeed == Feed!Spec

Served(r) == roomSubs[r] # None /\ roomSubs[r] \notin psClosed

\* A joined client that stays is eventually served by an open registered
\* subscriber, unless the server shuts down.
JoinedClientIsServed ==
  \A c \in Conns :
    (handler[c] = "started" /\ pump[c] = "reading") ~>
      (Served(url[c]) \/ pump[c] # "reading" \/ phase # "running")

\* r holds no subscription and no subscriber goroutine.
Released(r) ==
  /\ ~subscriptions[r]
  /\ \A c \in Conns : url[c] = r => worker[c] \in {"none", "rejected", "ended"}

\* "closes the room's Redis subscription once no local client remains, so idle
\* rooms don't hold a subscription and goroutine forever" (stopSubscriptionIfEmpty):
\* a room that stays empty is eventually released.
IdleRoomIsReleased ==
  \A r \in Rooms :
    rooms[r] = {} ~> (rooms[r] # {} \/ Released(r) \/ phase # "running")

\* No client leaves before its own handler has been through the table.
HandlerFirst ==
  \A c \in Conns : pump[c] \notin {"none", "reading"} => handler[c] = "done"

\* The same promise, in the executions where no connection is torn down before
\* its own handler has got to the subscription table: then it holds.
IdleRoomIsReleasedIfHandlerFirst == []HandlerFirst => IdleRoomIsReleased

-----------------------------------------------------------------------------
(* The inductive invariant behind the safety properties.                   *)

\* A client is registered from its Join to its Leave, in its own room only.
Membership ==
  \A c \in Conns, r \in Rooms :
    c \in rooms[r] <=> /\ url[c] = r
                       /\ handler[c] \in {"joined", "started", "done"}
                       /\ pump[c] \in {"none", "reading"}

\* subLock is held exactly by a readPump between its check and its clear, and
\* while it is held no client of that room can have got past the table.
LockHeld ==
  \A c \in Conns :
    /\ pump[c] = "stopping" <=> subLock = c
    /\ pump[c] = "stopping" =>
         \A d \in rooms[url[c]] : handler[d] # "done"

\* Goroutines and pumps exist only once the handler that starts them got there.
Started ==
  \A c \in Conns :
    /\ worker[c] # "none" => handler[c] = "done"
    /\ handler[c] \in {"new", "accepted", "joined"} => pump[c] = "none"

\* Generations are handed out once, in order.
Generations ==
  /\ \A c \in Conns : worker[c] # "none" => gen[c] <= subGen
  /\ \A c, d \in Conns :
       worker[c] # "none" /\ worker[d] # "none" /\ gen[c] = gen[d] => c = d

\* Only a subscriber that got past its check is closed from outside, and one
\* that was taken out for closing is not registered any more.
Closing ==
  \A c \in Conns :
    /\ c \in psClosed => worker[c] \in {"rejected", "serving", "ended"}
    /\ worker[c] = "ended" => c \in psClosed
    /\ taken[c] # None => /\ worker[taken[c]] \in {"serving", "ended"}
                          /\ roomSubs[url[taken[c]]] # taken[c]

IInv ==
  /\ TypeOK
  /\ Membership
  /\ LockHeld
  /\ Started
  /\ Generations
  /\ Closing
  /\ RegisteredIsCurrent
  /\ JoinedRoomIsSubscribed
  /\ NoOrphanSubscriber
=============================================================================
