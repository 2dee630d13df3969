# A TLA+ verification of small-talk

small-talk is a chat: Go chat servers ("nodes", `src/apps/app/server`), a Go
directory that places rooms on nodes (`src/apps/directory`), Redis (pub/sub,
room leases, history, presence, unread counters), Postgres (accounts, friends,
favourites) and a React client. These modules model the parts in which several
goroutines, nodes or processes share state, check them with TLC on small
instances, and prove the core with TLAPS.

## The system

| component | state | operations | hard about it |
|---|---|---|---|
| room subscription (`main.go`) | `rooms`, `subscriptions`, `subGens`, `roomSubs`, under three mutexes | join, leave, start/stop a subscription, a subscriber that registers or gives up, shutdown | four kinds of goroutine; a check under one lock that is acted on under another |
| message delivery (`main.go`) | Redis channel and history, a bounded queue per client | publish, store, fan out, write, close a slow client | at-most-once pub/sub, full queues, a closed channel that is still a member's |
| room placement (directory, `roomlease.go`, `heartbeat.go`) | the directory's table of nodes, the lease of each room | heartbeat, `/join`, takeover, admission on the node, lease expiry | decisions from a table that is periods old; lost heartbeats; restarts |
| presence (`presence.go`) | `onlineUsers`, Redis copies with expiry | join, leave, rename, periodic refresh, reading | two hosts of a room over time; several connections of one user |
| DM unread counters (`dmunread.go`) | a Redis hash per user | a message counts, opening a chat clears | check-then-act against `onlineUsers` |
| graceful shutdown (`main.go`) | flags, contexts, a wait group | drain heartbeat, broadcast, close all, wait | recursive read locks, requests that passed the check |
| web client (`Chat.tsx`) | one socket, retry timer, message list | history, `/join`, connect, reconnect | events between history and socket; two triggers of a reconnect |
| friends, favourites, accounts, DM lists (`handlers.go`) | Postgres rows, Redis sets | requests, accept, decline, remove, toggle, register, rename, start a DM, list DMs | check-then-write without transactions, half-failed pairs of writes |
| ranking, rate limiter, metrics, set-up, UI | | | see `components` in PROJECT.json |

How they meet: the client asks `/join` of the directory, which answers with the
URL of the node that holds the room's lease; the node checks the lease again and
upgrades. On the node the handler registers the client, starts the two pumps,
and makes sure the room has a Redis subscription. What a client sends is
published on the room's channel; the subscriber stores it, counts it as unread
for a DM partner who is not there, and fans it out. Heartbeats tell the
directory who is alive and extend the leases of occupied rooms.

## What makes each component correct

* Subscription: at most one registered subscriber per room; no subscriber that
  nobody will ever close; a joined client is served; an empty room is released.
* Delivery: no client is shown a conversation with a hole in it; what is seen
  live is in the history; a slow client costs the others nothing.
* Placement: a room is served by one node at a time; a lease is moved only from
  a node without clients.
* Presence: the copy in Redis ends up equal to who is connected; only the host
  writes it. Unread: nothing is counted in an open conversation, everything
  else is.
* Shutdown: ends; no goroutine waits for ever; who is closed has been told.
* Client: the list it shows has no gap and no duplicate; one socket at a time.
* Friends and accounts: no pending request between friends, a removed friend stays
  removed, a DM is in both lists, no row names an account that never was.

## The modules

| module | models | composes |
|---|---|---|
| `RoomFeed` | abstract: one feed per room, never reattached | |
| `RoomSubscription` | the subscription lifecycle on one node | implements `RoomFeed` |
| `RoomSubscription_proofs` | its theorems | `RoomSubscription`, `RoomFeed` |
| `RoomLog` | abstract: a room's messages come on feeds, every client reads on from where it joined | |
| `RoomDelivery` | publish, store, fan out, write | `RoomSubscription`; implements `RoomLog` |
| `RoomDelivery_proofs` | its theorems | `RoomDelivery`, `RoomLog`, `RoomSubscription_proofs` |
| `RoomPlacement` | directory, leases, heartbeats, admission | |
| `RoomPlacement_proofs` | its theorems | `RoomPlacement` |
| `Presence` | `onlineUsers`, its copy in Redis, renames, the DM unread counters | |
| `Presence_proofs`, `PresenceUsers_proofs` | its theorems | `Presence` |
| `Shutdown` | `gracefulShutdown` against handlers, pumps and subscriber | |
| `Shutdown_proofs` | its theorems | `Shutdown` |
| `Social` | accounts, friends and DM lists as rows and sets | |
| `Social_proofs` | its theorems | `Social` |
| `MC*` | constants and symmetry sets for TLC | |

Definitions named "Mutant" in a comment are wrong versions of the operator next
to them, kept to show that the properties are able to fail: replacing the
operator by its mutant breaks the property PROJECT.json pairs it with.

### RoomSubscription

A member of `Conns` is one `*client`: allocated by one call of
`handleConnections`, never reused. The subscriber goroutine its handler may
start and that goroutine's `*redis.PubSub` carry the same name. `handler`,
`pump` and `worker` are the program counters of the three goroutines;
`rooms`, `subscriptions`, `subGens`, `roomSubs` are the package variables of
the same names; `subLock` is a variable because it is held across the emptiness
check, `roomsLock` and `roomSubsMu` are not because each is held within one step.
A step is one critical section, or one call that others can observe.

| action | code |
|---|---|
| `Accept`, `Join`, `StartPumps`, `KeepSubscription`, `StartSubscription` | `handleConnections` |
| `Leave`, `StopNotNeeded`, `StopCheck`, `StopClear`, `StopClose` | `readPump`'s deferred function and `stopSubscriptionIfEmpty` |
| `Subscribe`, `Register`, `GiveUp`, `Finish` | `runSubscription` |
| `BeginShutdown`, `CloseRoomSubs` | `gracefulShutdown` |

Fairness: a goroutine that can run does run, and `sync.Mutex` hands the lock to a
waiter of more than a millisecond, so the server's own steps are weakly fair; as
every connection is used once, the lock is contended only finitely often and
weak fairness is enough. Peers are not fair: nobody has to connect or leave.

### RoomDelivery

Extends the actions of `RoomSubscription` with the Redis channel (`inbox`, at
most once: who is not subscribed gets nothing, a `PUBLISH` may fail, a closing subscriber
loses a suffix), the history list, the message a subscriber has at hand (`work`), the
queues `send` of capacity `SendCap`, `closed`, and the writers. A panic is the state
`crashed`. `Followed` says which events a run follows; events are all handled
alike apart from `IsHistoryType`, so leaving some out only leaves out traffic.

| action | code |
|---|---|
| `SendEvent`, `CloseClient`, `AnnounceLeave` | `readPump` |
| `AnnounceJoin` | the goroutine of `handleConnections` |
| `TakeLive`, `LPush`, `LPushFails`, `LTrim` | `runSubscription`: two Redis calls, each of which may fail; the second is made, and its error ignored, whatever the first did |
| `FanOut`, `Enqueue`, `EnqueuePanics` | `enqueueToRoom`: the lock is taken, then one client after the other |
| `Write`, `WriteFails`, `WriterCloses` | `writePump` |
| `DJoin`, `DLeave` and the other `D` actions | the steps of `RoomSubscription`, with what they do here |

`enqueueToRoom` holds `roomsLock` for reading and goes through a map in random order, and
a room has two subscribers while one that is being closed still runs beside its successor. So
there is no order of a room's messages: two clients may be handed the messages of the
two subscribers interleaved in two ways, and an event that both receive is seen twice. What
there is is the order of each subscriber. `fanned[w]` is the sequence of `w`'s messages,
a queue's entry names a place in it, and `seen[c][w]` says how far `c` has
been written; `offered` counts what was to be queued for a client. These record what
happened, no guard reads them. `RoomLog` is implemented with `fanned` as its feeds.
A join and a leave need `roomsLock` for writing and so wait until nobody enqueues
(`NobodyEnqueues`).

### RoomPlacement

One room (every table is per room), time in heartbeat periods. `app[n]` is the
directory's record of node `n`, `lease`/`left` the Redis key and its remaining
life, `req[k]` a client's way from `/join` to a socket, with what the handler
has read so far: the owner it looked up, whether that one was eligible, the owner it judged
dead, the ranked nodes; each of these reads takes the directory's lock by itself
(`LookUpOwner`, `OwnerIneligible`, `JudgeOwner`, `ListHealthy`), so the table may change
in between. A node may admit a client after it has begun to drain: the flag was read
when the request came. `flight` holds heartbeats between the snapshot and the handler; what has
not arrived by the end of the period is lost. `missed` counts the refreshes that Redis
has failed since it last did one for this lease, at most `MaxMissed`. Faults (a directory restart, a
node's crash or drain, a failed refresh) are bounded together by `MaxFaults`.
`settled` is a history variable for `KeptWhileServed`. The float ranking is any
order; and since Redis may fail any claim, any node may be passed over.

### Presence

One room with two users, `owner[c]` being the one behind connection `c`;
`conn[c]` is how far `handleConnections`, then `readPump`, got. `online` is
`onlineUsers[room]` on the host. `snap[s]` is the set that `syncPresence` of `s`
has read and not yet written, and stands for `presenceMu` as well: at most one
`s` has it. `copy` and `indexed` are the two Redis keys. Users rename themselves
as the client does it: `/update-username` edits the account, then the tables of
the node that serves the request if it hosts the room, then the tab sends
`username_update`. That message is open to every connection, at any time and for
any name (`RenameOnSocket`): `readPump` compares it with nothing. `inbox`, `count` and `unread` are the way of a DM's message
through `recordUnreadDM`, split between the reading of `onlineUsers` and the
increment.

| action | code |
|---|---|
| `Join`, `GoOnline`, `MarkRead`, `MarkReadFails` | `handleConnections` |
| `Leave`, `GoOffline` | `readPump`'s deferred function |
| `Snapshot`, `Exec`, `ExecFails` | `syncPresence`, `writePresence` |
| `Refresh` | `syncAllPresence`, from the heartbeat loop |
| `ReadIndex`, `ReadSet`, `ReadFails`, `DropIndex` | `readPresence`: two round trips, then the tidying |
| `Say`, `Decide`, `Count`, `CountFails` | `readPump`, `recordUnreadDM` |
| `RenameStored` to `RenameAnswered`, `RenameOnSocket` | `UpdateUsernameHandler`, `Window.tsx`, `readPump` |
| `Expire`, `Crash` | Redis, the end of the host's process |

The host is one process at a time; after a crash the next starts with an empty
map. Two hosts at once (what `RoomPlacement` is about) and the moment in which
two subscribers of a room handle the same message are left out. `contested`, `dirty`
and `orphan` are history variables; they name the cases in which the code makes
no promise: connections that have shared an entry of `onlineUsers` (two of one user,
or one that took another user's name on the socket), a write that failed, a
copy whose author died.

`FairSpec` assumes that handlers and clean-ups go on, that the heartbeat loop
refreshes and that Redis expires keys; strong fairness of `Snapshot` is what
`sync.Mutex` gives: a goroutine that has waited for 1 ms is served next. The socket's
end, messages, renames, readers, failures and crashes are not fair.

### Shutdown

One room whose subscription is registered; `RoomSubscription` has the table. What
is new here is `roomsLock` as the `sync.RWMutex` it is (`writer` is who has called
`Lock`; from then on `RLock` waits, and `reading` are the read locks still held) and
what each connection's socket, queue and two pumps do while the process goes down.
`phase` is how far `main` and `gracefulShutdown` got, `stage[c]` how far the handler
of `c`, then its `readPump`, `pump[c]` its `writePump`.

| action | code |
|---|---|
| `Check`, `LockToJoin`, `Join`, `StartPumps` | `handleConnections` |
| `LockToLeave`, `Leave`, `CleanUp` | `readPump` and its deferred function |
| `Write`, `WriteFails`, `WriteClose` | `writePump` |
| `Receive`, `FanOut`, `SubscriberEnds` | `runSubscription`, `enqueueToRoom` |
| `Signal`, `LockToTell`, `NobodyToTell`, `LockAgain`, `Tell`, `CloseRoomSubs`, `List`, `CloseSend`, `AllDone`, `GraceOver` | `main`, `gracefulShutdown`, `enqueueToRoom` |

`a.cancel()` cancels the root context, and the context of the shutdown is derived
from the same root, so `GraceOver` is enabled as soon as the wait begins: the code's
15 seconds never pass. `server.Shutdown` gets the same finished context and returns
at once. The subscriber leaves when its PubSub's channel ends or at
`ctx.Done()`: its `ctx` is the package's background context, which nobody
cancels, so only the former is modelled.

The properties name what the code does not promise instead of leaving it out:
`late` are clients that joined after the broadcast (they had passed the check of the
flag before), `full` those whose queue was full once, `backlog` says that channels
were closed while the subscriber had events left, and `Deadlocked` is the state in
which the shutdown, between its two read locks, is kept out by a waiting writer.
That state is reachable. `ShutdownEnds` and `HolderCanLetGo` say that it is the
only way not to end.

`FairSpec`: a goroutine that can run does run (the shutdown, the subscriber, each
handler, each pump; a pump's wait is bounded by its write deadline, which
`WriteFails` stands for). Connecting, closing by the peer, events and the signal
are not fair.

### Social

Rows of Postgres and sets of Redis, and the handlers of `handlers.go` split at their
queries: no lock, and no transaction but that of `AcceptFriendRequestHandler`. A
slot `s` is a call in flight; `call[s].at` is its next query, `by` and `to` the names it
was made with. A handler of a single query (or transaction) is one action. Names
are the identity: a token names its user, a rename moves the row in `users` and
nothing else (`db.go` declares no foreign key on names).

| action | code |
|---|---|
| `Register`, `Login`, `Rename`, `Renamed`, `RenamedUnanswered`, `NameTaken`, `RenamedNothing` | `RegisterHandler`, `LoginHandler`, `UpdateUsernameHandler` |
| `SendRequest`, `AreFriends`, `NotFriends`, `AlreadySent`, `NotSent`, `CheckFails`, `InsertRequest`, `InsertRefused` | `SendFriendRequestHandler` |
| `Accept`, `Decline`, `RemoveFriend` | the handlers of these names |
| `StartDM`, `AddToOwn`, `AddToOwnFails`, `AddToOther`, `StartDMUnanswered` | `StartDMHandler` |
| `GetDMList`, `AllLive`, `SomeStale`, `DropStale` | `GetDMListHandler` |
| `QueryFails` | their error returns |

A query that fails may have been done all the same, its reply lost. Where that leaves
other rows behind than the query's success does, it is an action: a rename without a token
for the new name (`RenamedUnanswered`), a DM in one list or in both that was answered with
a 500 (`AddToOwnFails`, `StartDMUnanswered`; a pipeline goes on after the first SADD
has failed).

`crossed`, `removed`, `started`, `loose` and the `raced` of a call are history, no
action's guard reads them. They name the races that check-then-write loses: a
request sent while the other's was pending or past its check when the other was
accepted (`crossed`), a rename overtaken by another of the same account
(`raced`, `loose`). Each property says that what it excludes happens in no other way.
There is no liveness here: every call ends by itself.

## Runs

| run | instance | shows |
|---|---|---|
| `sub_three` | 3 connections, 1 room, shutdown at any time | `IInv` and the named invariants, `RoomFeed` implemented, joined clients served, rooms released if each handler reached the table before its client left |
| `sub_idle` (violation) | 2 connections | `IdleRoomIsReleased` fails without that proviso |
| `deliver_two` | 2 connections, a chat event each, queues of 1 | `NoGap` and `RoomLog` implemented with full queues, failing writes and publications, subscribers that overlap; `OnlyTheSlowAreCut` |
| `deliver_one` | 1 connection, all event types, history of 2, one LPush failure, LTrims that fail | `SeenIsStored`, `QueuedIsDelivered` |
| `deliver_panic` (violation) | 2 connections, queues of 1 | `SlowClientIsIsolated` fails |
| `placement_kept` | 2 nodes, 2 clients, 1 fault | `KeptWhileServed` |
| `placement_restart` (violation) | the same | `TakenFromTheDead` fails |
| `presence_room` | 2 connections of one user or of two, a rename over HTTP, a name taken by each on the socket, a failed write or a crash | `CopyIsCurrent`, `ReaderIsOnline`, `NoGhost` |
| `presence_dm` | a DM room under `FairSpec`, 2 messages, one fault, nobody renames | `AtMostOneLate`, `ShownCatchesUp` |
| `presence_twice` (violation) | 3 connections, nobody renames on the socket | `CountedOnlyIfAway` fails |
| `shutdown` | 2 connections, queues of 1, 2 events, shutdown at any time | `SInv`, `FrameFollowsBye`, `PanicNeedsBacklog`, `HolderCanLetGo`; `ShutdownEnds` under `FairSpec` |
| `social` | 2 accounts and a free name, 5 calls, 2 at a time, 1 failing query | `SocialInv` and its named parts |

Why the bounds are enough. The generation check matters with two subscribers of
one room and the stop that separates them: three connections give a stop, a
restart and a further join, and the proof covers every number of connections
and rooms. A queue of one is full as soon as a client misses one turn. `deliver_two` has
two connections: two clients that are handed two messages in two orders need a third, whose
subscriber overlaps the first one's, and three are more than 12 million states. The
proofs take that up: `NothingIsSkipped`, `CutOffIsSlow` and `RefinesRoomLog` hold for every
number of connections, subscribers and calls of `enqueueToRoom` at a time. The
lease life of 3 periods against a TTL of 1 keeps the order of the code's 60 s
and 10 s with room for one failed refresh (`MaxMissed` = 1); two clients are one that is served and
one whose `/join` competes. In `Presence` four writers compete for the mutex
(two connections, the rename, the refresh), and two connections are one user twice,
or a reader and a sender, or one that takes the other's name; one `username_update` each
(`MaxUpdates`) is a name taken and taken back. Two messages (`MaxSaid`) tell one late
message from two. The liveness run leaves the renames out, for its size: each is another
change of `onlineUsers` with a write behind it, as a join is. The theorem
`OnlyOneLate` has `AtMostOneLate` with any number of them. In `Shutdown` one connection is the client that is told, the other
the writer that comes in between, the late joiner or the leaver; two events are one
in the subscriber's hands and one in its buffer, a queue of one is full at the second
message. In `Social` the longest race (two requests at once, the acceptance of one, its removal,
and what is left) takes five calls of two users; a third name is what a rename or a
registration gives or takes. Both have proofs for every size. Deadlock checking is off: every run ends in states
where the connections are used up or the faults spent.

`KeptWhileServed` is checked with `MaxSilence = HealthyTTL`: no node that is up
misses a heartbeat. With a period of 5 s to 6 s and a TTL of 10 s, one lost
heartbeat is enough for the directory to call a live owner gone, so this is what
the code needs from the network, not a convenience. The property begins at the
first heartbeat that refreshed the lease, with no takeover under way: before
that the lease can expire under a client that has just been admitted
(`claimOrGetRoomOwner` does not extend it), and a takeover decided before a
heartbeat is carried out after it. Redis may fail refreshes, but not so many in a
row that the lease runs out meanwhile: with a lease of 2 periods in place of 3 the
run finds a node that loses its room. The theorem (below) says how the three
numbers must be related.

## Findings

* `sub_idle`: the pumps start before the handler has looked at the subscription
  table. A socket that fails at once finds nothing to stop; its handler then
  starts a subscription for an empty room, which stays
  (`main.go:420-434`, against the comment at `main.go:460-461`).
* `deliver_panic`: a client whose channel `enqueueToRoom` has closed stays in
  `rooms` until its `readPump` ends; the next event sends on the closed channel
  and panics (`main.go:138-147`, against "Slow clients are isolated." at
  `main.go:98`).
* `placement_restart`: a directory that has just started does not know the
  owner of an occupied room, takes it for dead and moves the lease
  (`directory/handlers.go:388-393`, against the comment at 383-387).
* `presence_twice`: a user with two connections to a room is offline as soon as
  one of them ends (`main.go:212`); messages of a DM he is looking at are counted
  as unread, against the comment at `dmunread.go:41-42`.

Weaker promises are stated as they are kept, not as violations; for `Shutdown` and
`Social` the exceptions are described with the modules.
`NoGap` and `RoomLog` order the messages of each subscriber, not of the room. The length of
the history has no bound: `LTrim` may fail, and an entry too many stays until one
succeeds. `AtMostOneLate`: the one message that `recordUnreadDM` had decided to count when
the recipient came in stays counted though he is reading. `ReaderIsOnline` and
`NoGhost` except the user that a rename over HTTP is about: until the tab sends
`username_update` the node has the new name for a connection that still carries
the old one, and if the tab never does, the new name stays online until a
connection under that name ends or the host dies.

`ReaderIsOnline` also excepts connections that have shared an entry (`contested`). With
the same user twice that is the finding of `presence_twice`. With two users it is this: a
connection may take any name over the socket (`main.go:247-268`), also the one of a user who
is in the room; when it leaves, or takes a third name, that user goes out of
`onlineUsers` while he is reading. The comment at `main.go:248-249` ("Identity comes from
the authenticated connection, never the payload; otherwise any client could drop or rename
another user's presence.") is true of the name that goes, which is the connection's, and not
of the name that comes; `lifecycle_test.go:116-134` tests the former.

## Proofs

`RoomSubscription_proofs` proves, for any sets of connections and rooms and
from the one assumption `None \notin Conns`:

* `InductiveInvariant`: `Spec => []IInv`, from one lemma per action, each with one
  step per conjunct the action can disturb;
* `TypeCorrect`, `NoOrphans`, `JoinedStaysSubscribed`, `RegisteredStaysCurrent`;
* `RefinesRoomFeed`: `Spec => Feed!Spec`, where `Register` is `Attach`, `StopClear`,
  `Finish` and `CloseRoomSubs` are `Detach`, and every other step stutters.

Why `IInv` is needed. `JoinedRoomIsSubscribed` is about `StopClear` clearing the
flag; that no joined client past the table is then in the room follows from
`LockHeld`: between check and clear the lock is held, so a client that slipped
into the room cannot have passed the table, whose lock it needs. `LockHeld` in
turn rests on `Membership`. `NoOrphanSubscriber` needs that a subscriber which
registers finds no other registered one: the flag is on and the generation is
its own (`Current`), a registered one would have that same generation
(`RegisteredIsCurrent`), and generations are never shared (`Generations`).
`Closing` says that only subscribers past their check are closed from outside
and that one taken out for closing is not registered, which is what makes
`Finish` leave its successor's entries alone.

`Presence_proofs` proves, from `PresenceAssumption` and for any number of
connections, `CopyNeverDrifts`: `Spec => []CopyIsCurrent`. Whether the copy is current
when everybody is done depends on the last write, so the invariant `CopyInv` says of
every moment what the holder of the mutex is about to write: it is
`onlineUsers` as it is now unless somebody else is still to write
(`SnapIsCurrent`). A change of `onlineUsers` makes its author somebody who is still
to write, which keeps it; that nobody else can hold an older snapshot at the time
is `MutexHeld`.

`PresenceUsers_proofs` proves, with `CopyInv` and from the same assumption, `UserInv` and
from it `ReaderIsOnline`, `NoGhost`, `AtMostOneLate` and `TypeOK`. Nothing keeps two
connections from having one name, so the invariant says when they have been noticed:
whoever shares an entry now is `contested` (`SharingKnown`), so a connection that never
has loses its name to no other's clean-up or rename. `StillOnline` is `ReaderIsOnline` for every
stage of a connection, with what a rename leaves in the meantime: the new name is online
for the old one. `NamesKnown` says what is known of a connection's name as long as it has
sent no `username_update`; `Counts` bounds the counters by what was said, and `LateOnce`
adds the increment that is decided to what is counted.

`Shutdown_proofs` proves, from `ShutdownAssumption` and for any number of
connections, any queue length and any number of events, `SInv` and from it
`FrameFollowsBye`, `PanicNeedsBacklog` and `HolderCanLetGo`. The last needs only who
holds the lock and what for (`LockHeld`). For the first, `Broadcast` says of every
client of the room after the broadcast that it was told, is an exception, or has
`server_shutdown` in its queue and no close frame yet; two lemmas on queues
(`ByeStays`, `ByeIsNext`) carry that through appends and writes. It rests on
`ClosedBy`: before the list exists a channel is closed only by a full queue or by the
clean-up of a client that has left the room. That, too, is why a panic needs a full
queue or a backlog: the client it hits is still in the room, so nobody has cleaned
up after it, and if it was the shutdown that closed it, no event can have come in
since (`Members`: the subscription is closed before the list is made).

`Bounds` adds to `SInv` what the types need: queues within their channels, a buffer that
never holds more than was published. `ShutdownTypes` follows.

`Social_proofs` proves, from `SocialAssumption`, `SocialInv` and its parts. The
named properties are about tables; what makes them inductive is what each call in flight
has established and not yet used (`Sound`): a request past its first check is not
between friends unless raced, a DM half added is in the caller's list, what a
clean-up will drop has no account. `Waiting` keeps requests both ways among the
crossed and a removed pair without any, which is what an acceptance then needs.

`RoomPlacement_proofs` proves, from `PlacementAssumption`, `TypeCorrect` and
`ServedRoomKeepsItsLease`: `TimelyHeartbeats => (Spec => []KeptWhileServed)`, for any number
of nodes, clients and faults. `TimelyHeartbeats` is the hypothesis on the environment:
no node that is up is silent for longer than the directory's TTL
(`MaxSilence <= HealthyTTL`), and the refreshes that Redis fails in a row, each costing at
most `MaxSilence` periods, do not outlast the lease
(`MaxSilence * (MaxMissed + 1) < LeaseTTL`). With the code's numbers (a heartbeat every
5 s, TTLs of 10 s and 60 s: 2 and 12 periods) it allows four failed refreshes in a row
at that silence. Both parts are needed: without the first `ownerGone` takes a live
owner for dead, without the second the key expires. What makes `KeptWhileServed` inductive is
`Settled`: a lease's life spent is accounted for by the silence of its owner and the
refreshes missed (`left + silence + MaxSilence * missed >= LeaseTTL`), so a `Tick` never
takes the last of it; no request holds the node for dead; and the snapshots on
their way count its clients, except in the period it settled in, so a heartbeat that
is applied late still refreshes.

`RoomDelivery_proofs` proves, from `NoneAssumption` and `DeliveryAssumption`, and so for any
number of connections, rooms and events and any size of the queues and the history:

* `DeliveryFollowsTheProtocol`: `DSpec => Spec`, each step of the composition is a step of
  `RoomSubscription` or leaves its variables alone; so `IInv` holds here too, and
  `DeliveryRefinesRoomFeed` follows;
* `DeliveryInv`: `DSpec => []DInv`, and from it `DeliveryTypeCorrect`, `NothingIsSkipped`
  (`NoGap`), `WhatIsSeenIsStored` (`SeenIsStored`) and `CutOffIsSlow` (`OnlyTheSlowAreCut`);
* `RefinesRoomLog`: `DSpec => ImplementsRoomLog`, where `DJoin` is `Enter`, `FanOut` is `Post`,
  `Write` is `Show`, and everything else stutters.

`NoGap` is about one client and all subscribers of its room: an entry of its queue is the next of
its subscriber, behind what has been written and what is queued before it (`InTurn`). That
survives `Enqueue` because a subscriber hands out one message at a time and what it has
handed to `c` so far is queued or written (`UpToDate`, the message at hand excepted for who
is still in `todo`), whatever other subscribers queue in between. It rests on the protocol:
a client is in one room only (`Membership`), so only its own room's subscribers touch its
queue; and on the lock: members do not change while somebody enqueues. `AllKept` is
`SeenIsStored` for the message at hand as well, once its `LPush` is done: lists grow at the head
and are cut only by an `LTrim` that leaves `HistoryCap` entries. That a closed member was
offered more than its queue holds follows from the queue never being longer than what
was offered.

Only model-checked: the liveness properties (`JoinedClientIsServed`,
`IdleRoomIsReleasedIfHandlerFirst`, `QueuedIsDelivered`, `ShownCatchesUp`, `ShutdownEnds`;
fairness and ENABLED are out of the prover's reach), and the four properties that are
violated. Every other property of a passing run is stated by a theorem.

## Plan

Done: `RoomFeed`, `RoomSubscription`, `RoomLog`, `RoomDelivery`, `RoomPlacement`, `Presence`
with the DM unread counters, `Shutdown`, `Social`; proofs of the safety properties of all.

1. `ClientReconnect`: history, `/join`, socket, back-off, `online` and `pagehide`
   in the browser's event loop.
2. `RoomPlacement` composed with `Presence`: two hosts of one room over time.
3. Proofs: an abstract specification of placement (one home per room) that
   `RoomPlacement` implements under `TimelyHeartbeats`, and one of friendship for `Social`.

## Not modelled

* The contents of messages, JWTs and password hashes, the UI, metrics and logging,
  start-up, the repro tool, load tests and deployment scripts: no state that the
  rest reads, or code outside the system.
* The ranking: its scores are floats, and the model that replaces them lets
  `RoomPlacement` try the nodes in any order.
* Favourites, `CreateRoom`, statuses, `UpdatePassword`, the token refresh: one read and
  one write of a row or set that the database keeps consistent, about which the code
  promises nothing that a race could break.
* The rate limiter (per process, by wall-clock age) and the SSE channel (one Redis
  subscription per open stream, nothing read back).
* The web client so far, except for its rename message (`Presence`) and as the peer
  that connects, retries and closes.

Redis is taken to be one server that executes commands and scripts atomically and
may fail any of them; its loss of data is not modelled. So is Postgres, each
statement at READ COMMITTED.
