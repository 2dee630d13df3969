------------------------------- MODULE Social -------------------------------
(***************************************************************************)
(* Accounts, friends and DM lists: rows in Postgres and sets in Redis, and *)
(* the HTTP handlers of handlers.go that read and write them.  A handler   *)
(* holds no lock and, but for the acceptance of a request, opens no        *)
(* transaction: any number of calls, on any node, interleave between their *)
(* queries.  A single query, and the transaction of the acceptance, is one *)
(* step.                                                                   *)
(*                                                                         *)
(* What a rename does to the room it names is in Presence.                 *)
(***************************************************************************)
EXTENDS Naturals, FiniteSets

CONSTANTS
  Names,       \* user names
  Registered,  \* names with an account, logged in, at the start
  Slots,       \* calls that can be in flight together
  MaxCalls,    \* bound: calls
  MaxFaults    \* bound: queries that fail

ASSUME SocialAssumption ==
  /\ Registered \subseteq Names
  /\ MaxCalls \in Nat /\ MaxFaults \in Nat

VARIABLES
  accounts,   \* the names in users
  tokens,     \* names that unexpired tokens are signed for; none is revoked
  requests,   \* friend_requests: <<from, to>>
  friends,    \* friends: {user_a, user_b}
  dms,        \* dms[n]: the set dms:<n>
  call,       \* call[s]: the call in slot s, at its next query
  calls, faults,
  \* What the properties look back on:
  crossed,    \* pairs with a request pending that was sent across another or an acceptance
  removed,    \* pairs unfriended with nothing pending, and no request since
  started,    \* pairs for whom a StartDM was answered
  loose       \* names given up by a rename, or signed for by one that renamed nothing

friendVars == <<requests, friends, crossed, removed>>
nameVars == <<accounts, tokens, loose>>
dmVars == <<dms, started>>
vars == <<nameVars, friendVars, dmVars, call, calls, faults>>

\* raced, for the properties only: another call has overtaken this one's check,
\* or its check was lost.
Idle == [at |-> "idle", rows |-> {}, raced |-> FALSE]
Calling(at, a, b, rows) == [at |-> at, by |-> a, to |-> b, rows |-> rows, raced |-> FALSE]

Init ==
  /\ accounts = Registered /\ tokens = Registered
  /\ requests = {} /\ friends = {}
  /\ dms = [n \in Names |-> {}]
  /\ call = [s \in Slots |-> Idle]
  /\ calls = 0 /\ faults = 0
  /\ crossed = {} /\ removed = {} /\ started = {} /\ loose = {}

-----------------------------------------------------------------------------
Counted == calls < MaxCalls /\ calls' = calls + 1
Fault == faults < MaxFaults /\ faults' = faults + 1

\* VerifyToken lets the caller in by the token alone.
Opens(s, a, c) ==
  /\ Counted
  /\ call[s] = Idle
  /\ a \in tokens
  /\ call' = [call EXCEPT ![s] = c]

Moves(s, from, to) == call[s].at = from /\ call' = [call EXCEPT ![s].at = to]
Ends(s, from) == call[s].at = from /\ call' = [call EXCEPT ![s] = Idle]

\* A query that fails ends the call with a 500 (and leaves a StartDM half done),
\* but for the two of CheckFails.  One that is done although its answer is lost is
\* RenamedUnanswered, StartDMUnanswered or, where a 500 leaves the same rows behind
\* as an answer, the query's own action.
QueryFails(s) ==
  /\ call[s].at \notin {"idle", "isFriend", "alreadySent"}
  /\ Fault
  /\ call' = [call EXCEPT ![s] = Idle]
  /\ UNCHANGED <<nameVars, friendVars, dmVars, calls>>

-----------------------------------------------------------------------------
(* Accounts.                                                               *)

\* The primary key refuses a name that is taken: 409.
Register(n) ==
  /\ Counted
  /\ n \notin accounts
  /\ accounts' = accounts \cup {n}
  /\ UNCHANGED <<tokens, loose, friendVars, dmVars, call, faults>>

Login(n) ==
  /\ Counted
  /\ n \in accounts
  /\ tokens' = tokens \cup {n}
  /\ UNCHANGED <<accounts, loose, friendVars, dmVars, call, faults>>

\* Mutant: without the look-up.
RenameBlindly(s, a, b) ==
  /\ a # b
  /\ Opens(s, a, Calling("update", a, b, {}))
  /\ UNCHANGED <<nameVars, friendVars, dmVars, faults>>

\* The owner is looked up, then updated.  (A rename to one's own name changes nothing.)
Rename(s, a, b) ==
  /\ a # b /\ a \in accounts
  /\ Opens(s, a, Calling("update", a, b, {}))
  /\ UNCHANGED <<nameVars, friendVars, dmVars, faults>>

Overtaken(s, cs) == [t \in Slots |-> IF t # s /\ t \in cs THEN [call[t] EXCEPT !.raced = TRUE]
                                     ELSE IF t = s THEN Idle ELSE call[t]]

RenamesOf(a) == {t \in Slots : call[t].at = "update" /\ call[t].by = a}

\* Only the users row moves: requests, friends, dms and favourites keep the old name.
RowRenamed(s, a, b) ==
  /\ call[s].at = "update" /\ call[s].by = a /\ call[s].to = b
  /\ a \in accounts /\ b \notin accounts
  /\ accounts' = (accounts \ {a}) \cup {b}
  /\ loose' = loose \cup {a}
  /\ call' = Overtaken(s, RenamesOf(a))
  /\ UNCHANGED <<friendVars, dmVars, calls>>

Renamed(s, a, b) ==
  /\ RowRenamed(s, a, b)
  /\ tokens' = tokens \cup {b}
  /\ UNCHANGED faults

\* The row is renamed but the reply is lost: 500, and no token for the new name.
RenamedUnanswered(s, a, b) ==
  /\ RowRenamed(s, a, b)
  /\ Fault
  /\ UNCHANGED tokens

NameTaken(s) ==
  /\ Ends(s, "update")
  /\ call[s].by \in accounts /\ call[s].to \in accounts
  /\ UNCHANGED <<nameVars, friendVars, dmVars, calls, faults>>

\* An UPDATE of no row is no error: the call is answered with a token for the new name.
RenamedNothing(s) ==
  /\ Ends(s, "update")
  /\ call[s].by \notin accounts
  /\ tokens' = tokens \cup {call[s].to}
  /\ loose' = loose \cup {call[s].to}
  /\ UNCHANGED <<accounts, friendVars, dmVars, calls, faults>>

-----------------------------------------------------------------------------
(* Friends.                                                                *)

PendingPairs(rs) == {{r[1], r[2]} : r \in rs}

\* Mutant: a user can befriend himself.
SendRequestToSelf(s, a, b) ==
  /\ b \in accounts
  /\ Opens(s, a, Calling("isFriend", a, b, {}))
  /\ UNCHANGED <<nameVars, friendVars, dmVars, faults>>

\* Mutant: the target is not looked up.
SendRequestBlindly(s, a, b) ==
  /\ a # b
  /\ Opens(s, a, Calling("isFriend", a, b, {}))
  /\ UNCHANGED <<nameVars, friendVars, dmVars, faults>>

SendRequest(s, a, b) ==
  /\ a # b /\ b \in accounts
  /\ Opens(s, a, Calling("isFriend", a, b, {}))
  /\ UNCHANGED <<nameVars, friendVars, dmVars, faults>>

AreFriends(s) ==
  /\ Ends(s, "isFriend")
  /\ {call[s].by, call[s].to} \in friends
  /\ UNCHANGED <<nameVars, friendVars, dmVars, calls, faults>>

\* Mutant: friends are asked again.
NotFriendsUnchecked(s) ==
  /\ Moves(s, "isFriend", "alreadySent")
  /\ UNCHANGED <<nameVars, friendVars, dmVars, calls, faults>>

NotFriends(s) ==
  /\ Moves(s, "isFriend", "alreadySent")
  /\ {call[s].by, call[s].to} \notin friends
  /\ UNCHANGED <<nameVars, friendVars, dmVars, calls, faults>>

AlreadySent(s) ==
  /\ Ends(s, "alreadySent")
  /\ <<call[s].by, call[s].to>> \in requests
  /\ UNCHANGED <<nameVars, friendVars, dmVars, calls, faults>>

NotSent(s) ==
  /\ Moves(s, "alreadySent", "insert")
  /\ <<call[s].by, call[s].to>> \notin requests
  /\ UNCHANGED <<nameVars, friendVars, dmVars, calls, faults>>

\* The errors of the two checks are ignored: a check that failed has passed.
CheckFails(s) ==
  /\ call[s].at \in {"isFriend", "alreadySent"}
  /\ Fault
  /\ call' = [call EXCEPT
       ![s].at = IF call[s].at = "isFriend" THEN "alreadySent" ELSE "insert",
       ![s].raced = call[s].raced \/ call[s].at = "isFriend"]
  /\ UNCHANGED <<nameVars, friendVars, dmVars, calls>>

InsertRequest(s, a, b) ==
  /\ Ends(s, "insert")
  /\ call[s].by = a /\ call[s].to = b
  /\ <<a, b>> \notin requests
  /\ requests' = requests \cup {<<a, b>>}
  /\ crossed' = IF call[s].raced \/ <<b, a>> \in requests THEN crossed \cup {{a, b}} ELSE crossed
  /\ removed' = removed \ {{a, b}}
  /\ UNCHANGED <<friends, nameVars, dmVars, calls, faults>>

\* The primary key refuses the second row: 500.
InsertRefused(s) ==
  /\ Ends(s, "insert")
  /\ <<call[s].by, call[s].to>> \in requests
  /\ UNCHANGED <<nameVars, friendVars, dmVars, calls, faults>>

\* Requests between a and b that are past the check for friendship.
Unchecked(a, b) ==
  {t \in Slots : call[t].at \in {"alreadySent", "insert"} /\ {call[t].by, call[t].to} = {a, b}}

\* Mutant: the DELETE's row count is not looked at.
AcceptAnything(a, b) ==
  /\ Counted
  /\ a \in tokens /\ a # b
  /\ requests' = requests \ {<<b, a>>}
  /\ friends' = friends \cup {{a, b}}
  /\ crossed' = crossed \cap PendingPairs(requests')
  /\ call' = [t \in Slots |-> IF t \in Unchecked(a, b) THEN [call[t] EXCEPT !.raced = TRUE]
                              ELSE call[t]]
  /\ UNCHANGED <<removed, nameVars, dmVars, faults>>

\* One transaction: the request goes and the friends are there, or it ends with a 404.
Accept(a, b) ==
  /\ Counted
  /\ a \in tokens /\ <<b, a>> \in requests
  /\ requests' = requests \ {<<b, a>>}
  /\ friends' = friends \cup {{a, b}}
  /\ crossed' = crossed \cap PendingPairs(requests')
  /\ call' = [t \in Slots |-> IF t \in Unchecked(a, b) THEN [call[t] EXCEPT !.raced = TRUE]
                              ELSE call[t]]
  /\ UNCHANGED <<removed, nameVars, dmVars, faults>>

Decline(a, b) ==
  /\ Counted
  /\ a \in tokens /\ <<b, a>> \in requests
  /\ requests' = requests \ {<<b, a>>}
  /\ crossed' = crossed \cap PendingPairs(requests')
  /\ UNCHANGED <<friends, removed, nameVars, dmVars, call, faults>>

\* A pending request between the two stays.
RemoveFriend(a, b) ==
  /\ Counted
  /\ a \in tokens /\ {a, b} \in friends
  /\ friends' = friends \ {{a, b}}
  /\ removed' = removed \cup ({{a, b}} \ PendingPairs(requests))
  /\ UNCHANGED <<requests, crossed, nameVars, dmVars, call, faults>>

-----------------------------------------------------------------------------
(* DM lists: two sets in Redis that one pipeline, no transaction, writes.  *)

\* Mutant: the target is not looked up.
StartDMBlindly(s, a, b) ==
  /\ a # b
  /\ Opens(s, a, Calling("sadd", a, b, {}))
  /\ UNCHANGED <<nameVars, friendVars, dmVars, faults>>

StartDM(s, a, b) ==
  /\ a # b /\ b \in accounts
  /\ Opens(s, a, Calling("sadd", a, b, {}))
  /\ UNCHANGED <<nameVars, friendVars, dmVars, faults>>

AddToOwn(s) ==
  /\ Moves(s, "sadd", "saddOther")
  /\ dms' = [dms EXCEPT ![call[s].by] = @ \cup {call[s].to}]
  /\ UNCHANGED <<started, nameVars, friendVars, calls, faults>>

AddToOther(s) ==
  /\ Ends(s, "saddOther")
  /\ dms' = [dms EXCEPT ![call[s].to] = @ \cup {call[s].by}]
  /\ started' = started \cup {{call[s].by, call[s].to}}
  /\ UNCHANGED <<nameVars, friendVars, calls, faults>>

\* The pipeline goes on with the second SADD when the first has failed.
AddToOwnFails(s) ==
  /\ Moves(s, "sadd", "saddAlone")
  /\ Fault
  /\ UNCHANGED <<nameVars, friendVars, dmVars, calls>>

\* The second SADD is done and the call answered with a 500: for the first one, or
\* for a reply that is lost.
StartDMUnanswered(s) ==
  /\ \/ Ends(s, "saddAlone") /\ UNCHANGED faults
     \/ Ends(s, "saddOther") /\ Fault
  /\ dms' = [dms EXCEPT ![call[s].to] = @ \cup {call[s].by}]
  /\ UNCHANGED <<started, nameVars, friendVars, calls>>

\* The partners are read, looked up in users, and those not found are dropped.
GetDMList(s, a) ==
  /\ Opens(s, a, Calling("select", a, a, dms[a]))
  /\ UNCHANGED <<nameVars, friendVars, dmVars, faults>>

AllLive(s) ==
  /\ Ends(s, "select")
  /\ call[s].rows \subseteq accounts
  /\ UNCHANGED <<nameVars, friendVars, dmVars, calls, faults>>

SomeStale(s) ==
  /\ call[s].at = "select"
  /\ ~(call[s].rows \subseteq accounts)
  /\ call' = [call EXCEPT ![s].at = "srem", ![s].rows = @ \ accounts]
  /\ UNCHANGED <<nameVars, friendVars, dmVars, calls, faults>>

DropStale(s) ==
  /\ Ends(s, "srem")
  /\ dms' = [dms EXCEPT ![call[s].by] = @ \ call[s].rows]
  /\ UNCHANGED <<started, nameVars, friendVars, calls, faults>>

-----------------------------------------------------------------------------
CallStep(s) ==
  \/ \E a, b \in Names :
       Renamed(s, a, b) \/ RenamedUnanswered(s, a, b) \/ InsertRequest(s, a, b)
  \/ NameTaken(s) \/ RenamedNothing(s)
  \/ AreFriends(s) \/ NotFriends(s) \/ AlreadySent(s) \/ NotSent(s)
  \/ CheckFails(s) \/ InsertRefused(s) \/ QueryFails(s)
  \/ AddToOwn(s) \/ AddToOther(s) \/ AddToOwnFails(s) \/ StartDMUnanswered(s)
  \/ AllLive(s) \/ SomeStale(s) \/ DropStale(s)

Next ==
  \/ \E n \in Names : Register(n) \/ Login(n)
  \/ \E a, b \in Names : Accept(a, b) \/ Decline(a, b) \/ RemoveFriend(a, b)
  \/ \E s \in Slots, a, b \in Names : Rename(s, a, b) \/ SendRequest(s, a, b) \/ StartDM(s, a, b)
  \/ \E s \in Slots, a \in Names : GetDMList(s, a)
  \/ \E s \in Slots : CallStep(s)

Spec == Init /\ [][Next]_vars

-----------------------------------------------------------------------------
Steps == {"update", "isFriend", "alreadySent", "insert", "sadd", "saddOther", "saddAlone",
          "select", "srem"}
Calls == [at : Steps, by : Names, to : Names, rows : SUBSET Names, raced : BOOLEAN]

\* Types: requests, friendships and DMs are between two different names.
SocialTypeOK ==
  /\ accounts \subseteq Names /\ tokens \subseteq Names /\ loose \subseteq Names
  /\ \A r \in requests : r \in Names \X Names /\ r[1] # r[2]
  /\ \A p \in friends \cup crossed \cup removed \cup started :
       \E a, b \in Names : a # b /\ p = {a, b}
  /\ dms \in [Names -> SUBSET Names]
  /\ call \in [Slots -> Calls \cup {Idle}]
  /\ \A s \in Slots : call[s].at \in Steps \ {"select", "srem"} => call[s].by # call[s].to
  /\ calls \in 0..MaxCalls /\ faults \in 0..MaxFaults

\* Between friends no request is left pending, unless one was sent while the
\* other's was pending, or passed its check before the acceptance (or had that
\* check fail): SendFriendRequestHandler checks and inserts in four queries.
LeftoverIsCrossed == friends \cap PendingPairs(requests) \subseteq crossed

\* Two users one of whom removed the other, with nothing pending between them,
\* are no friends again before one asks anew, whatever else is in flight:
\* AcceptFriendRequestHandler takes the request and adds the friends in one
\* transaction.
RemovedStaysRemoved == removed \cap friends = {}

\* A DM that was answered as started stays in both users' lists: a list being
\* read and cleaned at the same time (GetDMListHandler) drops neither, as long
\* as neither name is given up.
DMListedForBoth ==
  \A a, b \in Names : {a, b} \in started /\ {a, b} \cap loose = {} => b \in dms[a] /\ a \in dms[b]

\* A token, a friend, a request or an answered DM that names no account names
\* one that a rename gave up, or never made: no handler writes a row for a name
\* that did not exist when it looked.
OrphansAreRenamed ==
  /\ tokens \subseteq accounts \cup loose
  /\ UNION (friends \cup PendingPairs(requests) \cup started) \subseteq accounts \cup loose

\* A rename that is about to update no row, and to be answered as done, was
\* overtaken by another rename of the same account after it had found it.
EmptyRenameIsRaced ==
  \A s \in Slots : call[s].at = "update" /\ call[s].by \notin accounts => call[s].raced

-----------------------------------------------------------------------------
(* The invariants above are inductive together with what they rest on.     *)

\* What a call is about to write is of accounts it has found, and of friends
\* only if it was raced.
Sound(s) ==
  /\ call[s].at \in Steps => call[s].by \in accounts \cup loose
  /\ call[s].at \in Steps \ {"update"} => call[s].to \in accounts \cup loose
  /\ call[s].at \in {"alreadySent", "insert"} /\ {call[s].by, call[s].to} \in friends => call[s].raced
  /\ call[s].at = "saddOther" /\ {call[s].by, call[s].to} \cap loose = {} =>
       call[s].to \in dms[call[s].by]
  /\ call[s].at = "select" => call[s].rows \subseteq accounts \cup loose
  /\ call[s].at = "srem" => call[s].rows \subseteq loose

InFlight == \A s \in Slots : Sound(s)

\* Requests both ways are crossed, and a removed pair has none.
Waiting ==
  /\ \A r \in requests : <<r[2], r[1]>> \in requests => {r[1], r[2]} \in crossed
  /\ \A r \in requests : {r[1], r[2]} \notin removed

ListsKnown == \A n \in Names : dms[n] \subseteq accounts \cup loose

SocialInv ==
  /\ SocialTypeOK /\ OrphansAreRenamed /\ EmptyRenameIsRaced
  /\ LeftoverIsCrossed /\ RemovedStaysRemoved /\ DMListedForBoth
  /\ InFlight /\ Waiting /\ ListsKnown
=============================================================================
