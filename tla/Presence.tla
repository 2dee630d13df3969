------------------------------ MODULE Presence ------------------------------
(***************************************************************************)
(* Who is in a room: onlineUsers on the node that hosts it, the copy of it *)
(* in Redis that every node reads (presence.go), and the unread counters   *)
(* of a DM, which go by onlineUsers (dmunread.go).                         *)
(*                                                                         *)
(* One room with two users, hosted by one process at a time                *)
(* (RoomPlacement); when that crashes, the next one starts with an empty   *)
(* onlineUsers.  The writers of the copy (Syncers) are the connections'    *)
(* goroutines, the handler of the HTTP rename and the heartbeat loop.      *)
(***************************************************************************)
EXTENDS Naturals, FiniteSets

CONSTANTS
  Conns,      \* WebSocket connections to the room, each used once
  Names,      \* user names
  Pair,       \* the names the two users start with
  IsDM,       \* the room is the DM room dm:<one of Pair>:<the other>
  Http,       \* the handler of a rename over HTTP
  Refresher,  \* the heartbeat loop's syncAllPresence
  None,
  MaxSaid,    \* bound: messages
  MaxUpdates, \* bound: username_update events a connection sends
  MaxFaults   \* bound: Redis calls that fail and crashes of the host

ASSUME PresenceAssumption ==
  /\ Pair \subseteq Names /\ Cardinality(Pair) = 2
  /\ None \notin Names
  /\ IsDM \in BOOLEAN
  /\ {Http, Refresher} \cap Conns = {} /\ Http # Refresher
  /\ MaxSaid \in Nat /\ MaxUpdates \in Nat /\ MaxFaults \in Nat

Syncers == Conns \cup {Http, Refresher}

VARIABLES
  owner,      \* owner[c]: the user behind c, by the name he had at first
  conn,       \* conn[c]: how far c's handler, then its readPump, got
  name,       \* name[c]: client.username
  updates,    \* updates[c]: the username_update events c has sent
  online,     \* onlineUsers[room]; empty is the same as no map
  snap,       \* snap[s]: what s, holding presenceMu, is about to write, or None
  copy,       \* presence:room:<room>
  indexed,    \* the room is in presence:rooms
  refresher,  \* syncAllPresence: "idle" or "active"
  reader,     \* a readPresence: "idle", has "listed" the index, found the set "stale"
  inbox,      \* the sender of the message that waits at the subscriber, or None
  count,      \* the recipient recordUnreadDM has decided to count for, or None
  unread,     \* unread[u]: u's counter for the other one of the pair
  token,      \* token[u]: the name in the token that u's browser holds
  rename,     \* the HTTP rename: how far it got, by which tab, from, to
  said, faults,
  \* What the properties look back on:
  dirty,      \* the last write of the copy failed
  orphan,     \* the copy is the work of a process that crashed
  contested   \* connections that have shared their entry in onlineUsers

connVars == <<owner, conn, name, updates, contested>>
copyVars == <<copy, indexed, dirty, orphan>>
dmVars == <<inbox, count, unread, said>>
nameVars == <<token, rename>>
vars == <<connVars, online, snap, copyVars, refresher, reader, dmVars, nameVars, faults>>

NoRename == [pc |-> "idle", by |-> None, old |-> None, new |-> None]

Init ==
  /\ owner \in [Conns -> Pair]
  /\ conn = [c \in Conns |-> "new"]
  /\ name = owner
  /\ updates = [c \in Conns |-> 0]
  /\ online = {}
  /\ snap = [s \in Syncers |-> None]
  /\ copy = {} /\ indexed = FALSE
  /\ refresher = "idle"
  /\ reader = "idle"
  /\ inbox = None /\ count = None
  /\ unread = [u \in Pair |-> 0]
  /\ token = [u \in Pair |-> u]
  /\ rename = NoRename
  /\ said = 0 /\ faults = 0
  /\ dirty = FALSE /\ orphan = FALSE
  /\ contested = {}

Fault == faults < MaxFaults /\ faults' = faults + 1

\* Between admission and clean-up.
Present(c) == conn[c] \in {"joined", "online", "synced", "reading", "renamed", "left"}

\* The names under which c's user is online, or has been put by a rename over HTTP.
Entries(c) == {name[c]} \cup IF name[c] = rename.old THEN {rename.new} ELSE {}

\* Two connections with one entry: either may take it out under the other.
Sharing ==
  {c \in Conns : \E d \in Conns \ {c} :
     Present(c) /\ Present(d) /\ Entries(c) \cap Entries(d) # {}}

-----------------------------------------------------------------------------
(* A connection: handleConnections, then readPump.                         *)

Step(c, from, to) == conn[c] = from /\ conn' = [conn EXCEPT ![c] = to]

\* Authenticated by the token, in a DM room one of the pair, and registered in
\* rooms.
Join(c) ==
  /\ Step(c, "new", "joined")
  /\ IsDM => token[owner[c]] \in Pair
  /\ name' = [name EXCEPT ![c] = token[owner[c]]]
  /\ UNCHANGED <<owner, updates, online, snap, copyVars, refresher, reader, dmVars, nameVars, faults>>
  /\ contested' = contested \cup Sharing'

GoOnline(c) ==
  /\ Step(c, "joined", "online")
  /\ online' = online \cup {name[c]}
  /\ UNCHANGED <<owner, name, updates, contested, snap, copyVars, refresher, reader, dmVars, nameVars, faults>>

\* The other one of the pair, in whose DM room u is.
Partner(u) == IF IsDM /\ u \in Pair THEN CHOOSE v \in Pair : v # u ELSE None

\* markDMRead: opening the conversation reads it.  Then the pumps start.
MarkRead(c) ==
  /\ Step(c, "synced", "reading")
  /\ unread' = [u \in Pair |-> IF u = name[c] THEN 0 ELSE unread[u]]
  /\ UNCHANGED <<owner, name, updates, contested, online, snap, copyVars, refresher, reader,
                 inbox, count, said, nameVars, faults>>

MarkReadFails(c) ==
  /\ Step(c, "synced", "reading")
  /\ Partner(name[c]) # None
  /\ Fault
  /\ UNCHANGED <<owner, name, updates, contested, online, snap, copyVars, refresher, reader, dmVars, nameVars>>

\* The socket ends; rooms, the counter and the subscription are cleaned up.
Leave(c) ==
  /\ Step(c, "reading", "left")
  /\ UNCHANGED <<owner, name, updates, contested, online, snap, copyVars, refresher, reader, dmVars, nameVars, faults>>

\* Mutant: by the account's name, not the connection's.
GoOfflineByToken(c) ==
  /\ Step(c, "left", "offline")
  /\ online' = online \ {token[owner[c]]}
  /\ UNCHANGED <<owner, name, updates, contested, snap, copyVars, refresher, reader, dmVars, nameVars, faults>>

GoOffline(c) ==
  /\ Step(c, "left", "offline")
  /\ online' = online \ {name[c]}
  /\ UNCHANGED <<owner, name, updates, contested, snap, copyVars, refresher, reader, dmVars, nameVars, faults>>

-----------------------------------------------------------------------------
(* syncPresence, for whoever has to.                                       *)

WantsSync(s) ==
  \/ s \in Conns /\ conn[s] \in {"online", "renamed", "offline"}
  \/ s = Http /\ rename.pc = "edited"
  \/ s = Refresher /\ refresher = "active"

\* Mutant: no mutex.
NoMutex == TRUE

\* presenceMu is free.
MutexFree == \A s \in Syncers : snap[s] = None

\* presenceMu, then the users of that moment.
Snapshot(s) ==
  /\ WantsSync(s)
  /\ snap[s] = None
  /\ MutexFree
  /\ snap' = [snap EXCEPT ![s] = online]
  /\ UNCHANGED <<connVars, online, copyVars, refresher, reader, dmVars, nameVars, faults>>

After == [online |-> "synced", renamed |-> "reading", offline |-> "gone"]

\* s goes on with what comes after its syncPresence.
Synced(s) ==
  /\ snap[s] # None
  /\ snap' = [snap EXCEPT ![s] = None]
  /\ conn' = IF s \in Conns THEN [conn EXCEPT ![s] = After[@]] ELSE conn
  /\ rename' = IF s = Http THEN [rename EXCEPT !.pc = "answered"] ELSE rename
  /\ refresher' = IF s = Refresher THEN "idle" ELSE refresher
  /\ UNCHANGED <<owner, name, updates, contested, online, reader, dmVars, token>>

\* The transaction: the set is rewritten whole, with its expiry and the index.
Exec(s) ==
  /\ Synced(s)
  /\ copy' = snap[s]
  /\ indexed' = (snap[s] # {})
  /\ dirty' = FALSE /\ orphan' = FALSE
  /\ UNCHANGED faults

\* Logged, and nothing else.
ExecFails(s) ==
  /\ Synced(s)
  /\ dirty' = TRUE
  /\ Fault
  /\ UNCHANGED <<copy, indexed, orphan>>

\* Mutant: a room counts as active only if the copy says so.
RefreshByCopy ==
  /\ refresher = "idle"
  /\ online # {} /\ copy # {}
  /\ refresher' = "active"
  /\ UNCHANGED <<connVars, online, snap, copyVars, reader, dmVars, nameVars, faults>>

\* syncAllPresence, after each heartbeat, if the room has users; they may have
\* left by the time of its write.
Refresh ==
  /\ refresher = "idle"
  /\ online # {}
  /\ refresher' = "active"
  /\ UNCHANGED <<connVars, online, snap, copyVars, reader, dmVars, nameVars, faults>>

\* 30s without a write: the process died, or the room has nobody to refresh for.
Expire ==
  /\ copy # {}
  /\ orphan \/ online = {}
  /\ copy' = {}
  /\ UNCHANGED <<connVars, online, snap, indexed, dirty, orphan, refresher, reader,
                 dmVars, nameVars, faults>>

-----------------------------------------------------------------------------
(* readPresence, by some node: the index, the sets, and away with the rooms *)
(* whose set is gone.                                                       *)

\* The rooms of the index.
ReadIndex ==
  /\ reader = "idle"
  /\ indexed
  /\ reader' = "listed"
  /\ UNCHANGED <<connVars, online, snap, copyVars, refresher, dmVars, nameVars, faults>>

\* Their sets, in a second round trip: there are users, or the set is gone.
ReadSet ==
  /\ reader = "listed"
  /\ reader' = IF copy = {} THEN "stale" ELSE "idle"
  /\ UNCHANGED <<connVars, online, snap, copyVars, refresher, dmVars, nameVars, faults>>

\* The second round trip, or the removal of the entry, fails.
ReadFails ==
  /\ reader # "idle"
  /\ reader' = "idle"
  /\ UNCHANGED <<connVars, online, snap, copyVars, refresher, dmVars, nameVars, faults>>

DropIndex ==
  /\ reader = "stale"
  /\ reader' = "idle"
  /\ indexed' = FALSE
  /\ UNCHANGED <<connVars, online, snap, copy, dirty, orphan, refresher, dmVars, nameVars, faults>>

-----------------------------------------------------------------------------
(* Messages and the unread counters.                                       *)

\* Published under the connection's name.
Say(c) ==
  /\ conn[c] = "reading"
  /\ inbox = None /\ said < MaxSaid
  /\ said' = said + 1
  /\ inbox' = name[c]
  /\ UNCHANGED <<connVars, online, snap, copyVars, refresher, reader, count, unread,
                 nameVars, faults>>

\* Mutant: whoever is reading is not asked after.
DecideBlindly ==
  /\ inbox # None /\ count = None
  /\ inbox' = None
  /\ count' = Partner(inbox)
  /\ UNCHANGED <<connVars, online, snap, copyVars, refresher, reader, unread, said,
                 nameVars, faults>>

\* recordUnreadDM in the room's subscriber: is the recipient reading?
Decide ==
  /\ inbox # None /\ count = None
  /\ inbox' = None
  /\ count' = IF Partner(inbox) \in online THEN None ELSE Partner(inbox)
  /\ UNCHANGED <<connVars, online, snap, copyVars, refresher, reader, unread, said,
                 nameVars, faults>>

\* Mutant: the increment is repeated.
CountAgain ==
  /\ count # None
  /\ unread' = [unread EXCEPT ![count] = @ + 1]
  /\ UNCHANGED <<connVars, online, snap, copyVars, refresher, reader, inbox, count, said,
                 nameVars, faults>>

Count ==
  /\ count # None
  /\ unread' = [unread EXCEPT ![count] = @ + 1]
  /\ count' = None
  /\ UNCHANGED <<connVars, online, snap, copyVars, refresher, reader, inbox, said,
                 nameVars, faults>>

CountFails ==
  /\ count # None
  /\ Fault
  /\ count' = None
  /\ UNCHANGED <<connVars, online, snap, copyVars, refresher, reader, inbox, unread, said,
                 nameVars>>

-----------------------------------------------------------------------------
(* A rename, from the window of one tab: over HTTP, then on its socket.    *)
(* The socket takes any name, from any connection, whatever came before it. *)

\* The account has the new name.
RenameStored(c, new) ==
  /\ rename = NoRename
  /\ conn[c] = "reading"
  /\ new \notin {token[u] : u \in Pair}
  /\ rename' = [pc |-> "stored", by |-> c, old |-> token[owner[c]], new |-> new]
  /\ UNCHANGED <<owner, conn, name, updates, online, snap, copyVars, refresher, reader, dmVars, token, faults>>
  /\ contested' = contested \cup Sharing'

\* The node that serves the request hosts the room: its onlineUsers has the new
\* name, whether the old one was in it or not.
RenameEdited ==
  /\ rename.pc = "stored"
  /\ online # {}
  /\ online' = (online \ {rename.old}) \cup {rename.new}
  /\ rename' = [rename EXCEPT !.pc = "edited"]
  /\ UNCHANGED <<connVars, snap, copyVars, refresher, reader, dmVars, token, faults>>

\* The request was served by another node, or the room has emptied.
RenameElsewhere ==
  /\ rename.pc = "stored"
  /\ rename' = [rename EXCEPT !.pc = "answered"]
  /\ UNCHANGED <<connVars, online, snap, copyVars, refresher, reader, dmVars, token, faults>>

\* The browser has the new token.
RenameAnswered ==
  /\ rename.pc = "answered"
  /\ token' = [token EXCEPT ![owner[rename.by]] = rename.new]
  /\ rename' = [rename EXCEPT !.pc = "done"]
  /\ UNCHANGED <<connVars, online, snap, copyVars, refresher, reader, dmVars, faults>>

\* Mutant: the old name is what the payload says.
RenameFromPayload(c, new) ==
  \E old \in Names \ {new} :
    /\ Step(c, "reading", "renamed")
    /\ updates[c] < MaxUpdates
    /\ updates' = [updates EXCEPT ![c] = @ + 1]
    /\ online' = IF online = {} THEN online ELSE (online \ {old}) \cup {new}
    /\ name' = [name EXCEPT ![c] = new]
    /\ UNCHANGED <<owner, snap, copyVars, refresher, reader, dmVars, nameVars, faults>>
    /\ contested' = contested \cup Sharing'

\* username_update in readPump: the connection's name for any other.  Nothing
\* compares it with the account, or with the names in the room.
RenameOnSocket(c, new) ==
  /\ Step(c, "reading", "renamed")
  /\ new # name[c]
  /\ updates[c] < MaxUpdates
  /\ updates' = [updates EXCEPT ![c] = @ + 1]
  /\ online' = IF online = {} THEN online ELSE (online \ {name[c]}) \cup {new}
  /\ name' = [name EXCEPT ![c] = new]
  /\ UNCHANGED <<owner, snap, copyVars, refresher, reader, dmVars, nameVars, faults>>
  /\ contested' = contested \cup Sharing'

-----------------------------------------------------------------------------
\* The host's process dies, and with it everything but Redis and the browsers; a
\* rename that another node serves goes on.
Crash ==
  /\ online # {}
  /\ Fault
  /\ conn' = [c \in Conns |-> IF conn[c] = "new" THEN "new" ELSE "gone"]
  /\ online' = {}
  /\ snap' = [s \in Syncers |-> None]
  /\ refresher' = "idle"
  /\ inbox' = None /\ count' = None
  /\ \/ rename.pc # "edited" /\ UNCHANGED rename
     \/ rename.pc \in {"stored", "edited"} /\ rename' = [rename EXCEPT !.pc = "done"]
  /\ orphan' = TRUE
  /\ UNCHANGED <<owner, name, updates, contested, copy, indexed, dirty, reader, unread, said, token>>

-----------------------------------------------------------------------------
Connection(c) == \/ Join(c) \/ GoOnline(c) \/ MarkRead(c) \/ MarkReadFails(c)
                 \/ Leave(c) \/ GoOffline(c) \/ Say(c)
Sync(s) == Snapshot(s) \/ Exec(s) \/ ExecFails(s)
Unread == Decide \/ Count \/ CountFails
Read == ReadIndex \/ ReadSet \/ ReadFails \/ DropIndex
Rename == \/ \E c \in Conns, new \in Names : RenameStored(c, new) \/ RenameOnSocket(c, new)
          \/ RenameEdited \/ RenameElsewhere \/ RenameAnswered

Next == \/ \E c \in Conns : Connection(c)
        \/ \E s \in Syncers : Sync(s)
        \/ Unread \/ Read \/ Rename \/ Refresh \/ Expire \/ Crash

Spec == Init /\ [][Next]_vars

\* The goroutines run, the heartbeat loop keeps running, Redis expires keys; a
\* sync.Mutex serves whoever has waited long enough, hence SF for Snapshot.
FairSpec ==
  /\ Spec
  /\ \A c \in Conns : WF_vars(GoOnline(c) \/ MarkRead(c) \/ GoOffline(c))
  /\ \A s \in Syncers : SF_vars(Snapshot(s)) /\ WF_vars(Exec(s))
  /\ WF_vars(Refresh) /\ WF_vars(Expire)

-----------------------------------------------------------------------------
(* Properties.                                                             *)

\* The values the tables hold.
TypeOK ==
  /\ owner \in [Conns -> Pair]
  /\ conn \in [Conns -> {"new", "joined", "online", "synced", "reading", "renamed",
                         "left", "offline", "gone"}]
  /\ name \in [Conns -> Names]
  /\ online \in SUBSET Names
  /\ snap \in [Syncers -> (SUBSET Names) \cup {None}]
  /\ copy \in SUBSET Names /\ indexed \in BOOLEAN
  /\ refresher \in {"idle", "active"}
  /\ reader \in {"idle", "listed", "stale"}
  /\ inbox \in Names \cup {None} /\ count \in Pair \cup {None}
  /\ unread \in [Pair -> 0 .. MaxSaid]
  /\ token \in [Pair -> Names]
  /\ rename \in [pc : {"idle", "stored", "edited", "answered", "done"},
                 by : Conns \cup {None}, old : Names \cup {None}, new : Names \cup {None}]
  /\ said \in 0 .. MaxSaid /\ faults \in 0 .. MaxFaults
  /\ dirty \in BOOLEAN /\ orphan \in BOOLEAN
  /\ updates \in [Conns -> 0 .. MaxUpdates] /\ contested \in SUBSET Conns

\* Nobody is between a change of onlineUsers and the write that follows it.
Quiet == \A s \in Conns \cup {Http} : ~WantsSync(s)

\* "The copy is rewritten whole ..., so it cannot drift": when nobody is about to
\* write and the last write got through, the copy is what the host has; two
\* writers never land in the wrong order (presenceMu).
CopyIsCurrent == Quiet /\ ~dirty /\ ~orphan => copy = online

\* Whoever is looking at the room is online, so no message counts as unread for
\* him, through joins, leaves, crashes and renames on both ways: after the HTTP
\* half of his rename under the new name.  The exception is a connection that has
\* shared its entry with another one, of the same user or of one who took his name
\* on the socket: the first of them to leave or rename takes it out.
ReaderIsOnline ==
  \A c \in Conns :
    conn[c] = "reading" /\ c \notin contested =>
      \/ name[c] \in online
      \/ name[c] = rename.old /\ rename.new \in online

\* Whoever is online has a connection that has not been cleaned up yet, so an
\* absent user's messages are counted; unless a rename over HTTP put the name in.
NoGhost ==
  \A u \in online \ {rename.new} :
    \E c \in Conns :
      name[c] = u /\ conn[c] \in {"online", "synced", "reading", "renamed", "left"}

\* What readPresence shows.
Shown == IF indexed THEN copy ELSE {}

\* Writes fail, readers drop the index entry of a set that is gone, the host
\* crashes: once no user comes or goes any more, what the nodes are shown is what
\* the host has, and stays so.
ShownCatchesUp == <>[](Shown = online)

\* Whoever is looking at the conversation, under a name that only his connection
\* has had, has at most one message counted: the one recordUnreadDM had already
\* decided to count when he came in.
AtMostOneLate ==
  \A c \in Conns :
    conn[c] = "reading" /\ c \notin contested /\ updates[c] = 0
        /\ rename = NoRename /\ faults = 0
      => unread[owner[c]] <= 1

\* "Nothing is counted or sent when the recipient is looking at the conversation."
\* (recordUnreadDM)
CountedOnlyIfAway ==
  [][\A u \in Pair : count # u /\ count' = u =>
       \A c \in Conns : conn[c] = "reading" => name[c] # u]_vars
=============================================================================
