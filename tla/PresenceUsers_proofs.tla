------------------------ MODULE PresenceUsers_proofs ------------------------
(***************************************************************************)
(* Who is online and what is counted for whom, for any number of           *)
(* connections, messages and faults: the properties of Presence about      *)
(* users.  (That the copy never drifts is Presence_proofs.)                *)
(***************************************************************************)
EXTENDS Presence_proofs, FiniteSetTheorems

Renaming == rename.pc # "idle"

\* The types that Stages leaves out.
Tables ==
  /\ copy \in SUBSET Names /\ indexed \in BOOLEAN
  /\ dirty \in BOOLEAN /\ orphan \in BOOLEAN
  /\ refresher \in {"idle", "active"} /\ reader \in {"idle", "listed", "stale"}
  /\ updates \in [Conns -> 0 .. MaxUpdates] /\ contested \in SUBSET Conns
  /\ faults \in 0 .. MaxFaults

\* Two connections are known to share an entry from the moment they do.
SharingKnown ==
  \A c, d \in Conns :
    c # d /\ Present(c) /\ Present(d) /\ Entries(c) \cap Entries(d) # {} => c \in contested

\* Until a rename everybody has the name he began with, and so has every
\* connection that sent no username_update.
NamesKnown ==
  /\ ~Renaming => rename = NoRename /\ token = [u \in Pair |-> u]
  /\ ~Renaming => \A c \in Conns : updates[c] = 0 => name[c] = owner[c]
  /\ \A c \in Conns : conn[c] = "renamed" => updates[c] # 0

\* The name of a connection that shares its entry with nobody is online until its
\* clean-up; while the node has the new name and the connection the old one, the
\* new one is.
StillOnline ==
  \A c \in Conns :
    conn[c] \in {"online", "synced", "reading", "renamed", "left"} /\ c \notin contested
      => name[c] \in online \/ (name[c] = rename.old /\ rename.new \in online)

AboutToCount(u) == IF count = u THEN 1 ELSE 0

\* Nothing is counted that was not said.
Counts ==
  /\ inbox \in Names \cup {None} /\ count \in Pair \cup {None}
  /\ unread \in [Pair -> Nat] /\ said \in 0 .. MaxSaid
  /\ \A u \in Pair : unread[u] + AboutToCount(u) + (IF inbox = None THEN 0 ELSE 1) <= said

\* What was decided before the reader came in is one message.
LateOnce ==
  \A c \in Conns :
    conn[c] = "reading" /\ c \notin contested /\ updates[c] = 0 /\ ~Renaming /\ faults = 0
      => unread[owner[c]] + AboutToCount(owner[c]) <= 1

UserInv == Tables /\ SharingKnown /\ NamesKnown /\ StillOnline /\ NoGhost /\ Counts /\ LateOnce

-----------------------------------------------------------------------------
(* One lemma per action, or per kind of them.                              *)

\* In a DM room everybody has a partner, who is one of the two.
LEMMA PartnerInPair == \A u \in Names \cup {None} : Partner(u) \in Pair \cup {None}
<1>1. ASSUME NEW u \in Pair  PROVE \E v \in Pair : v # u
  <2>1. CASE Pair = {u}
    BY <2>1, FS_Singleton, PresenceAssumption
  <2>. QED
    BY <1>1, <2>1
<1>. QED
  BY <1>1 DEF Partner

\* What makes two connections share an entry notes it; nothing else does.
LEMMA SharingNoted ==
  ASSUME contested' = contested \cup Sharing'
  PROVE  SharingKnown'
  BY DEF SharingKnown, Sharing

LEMMA SharingStays ==
  ASSUME SharingKnown, UNCHANGED <<name, contested>>,
         rename'.old = rename.old, rename'.new = rename.new,
         \A c \in Conns : Present(c)' => Present(c)
  PROVE  SharingKnown'
  BY DEF SharingKnown, Entries

\* A new connection has the name of the token; if another one has it, that is noted.
LEMMA JoinUsers ==
  ASSUME CopyInv, CopyInv', UserInv, NEW c \in Conns, Join(c)
  PROVE  UserInv'
<1>1. (Counts /\ LateOnce)'
  BY DEF UserInv, Counts, AboutToCount, LateOnce, Renaming, Join, Step,
      dmVars, nameVars
<1>2. Tables'
  BY DEF UserInv, Tables, Join, Sharing, copyVars
<1>3. SharingKnown'
  BY SharingNoted DEF Join
<1>4. NamesKnown'
  BY DEF UserInv, CopyInv, Stages, NamesKnown, Renaming, Join, Step,
      nameVars
<1>5. StillOnline'
  BY DEF UserInv, StillOnline, Renaming, Join, Step, nameVars
<1>6. NoGhost'
  BY DEF UserInv, NoGhost, Join, Step, nameVars
<1>. QED
  BY <1>1, <1>2, <1>3, <1>4, <1>5, <1>6 DEF UserInv

LEMMA GoOnlineUsers ==
  ASSUME CopyInv, CopyInv', UserInv, NEW c \in Conns, GoOnline(c)
  PROVE  UserInv'
<1>1. (Tables /\ NamesKnown /\ Counts /\ LateOnce)'
  BY DEF UserInv, Tables, Renaming, NamesKnown, Counts, AboutToCount,
      LateOnce, GoOnline, Step, copyVars, dmVars, nameVars
<1>2. SharingKnown'
  BY SharingStays DEF UserInv, CopyInv, Stages, Present, GoOnline, Step, nameVars
<1>3. StillOnline'
  BY DEF UserInv, StillOnline, Renaming, GoOnline, Step, nameVars
<1>4. NoGhost'
  BY DEF UserInv, CopyInv, Stages, NoGhost, GoOnline, Step, nameVars
<1>. QED
  BY <1>1, <1>2, <1>3, <1>4 DEF UserInv

\* Opening the conversation leaves what was decided before.
LEMMA MarkReadUsers ==
  ASSUME CopyInv, CopyInv', UserInv, NEW c \in Conns, MarkRead(c)
  PROVE  UserInv'
<1>1. (Tables /\ NamesKnown)'
  BY DEF UserInv, Tables, Renaming, NamesKnown, MarkRead, Step, copyVars,
      nameVars
<1>2. SharingKnown'
  BY SharingStays DEF UserInv, CopyInv, Stages, Present, MarkRead, Step, nameVars
<1>3. StillOnline'
  BY DEF UserInv, StillOnline, Renaming, MarkRead, Step, nameVars
<1>4. NoGhost'
  BY DEF UserInv, NoGhost, MarkRead, Step, nameVars
<1>5. Counts'
  BY DEF UserInv, Counts, AboutToCount, MarkRead
<1>6. LateOnce'
  BY DEF UserInv, CopyInv, Stages, LateOnce, AboutToCount, Renaming,
      NamesKnown, MarkRead, Step, nameVars
<1>. QED
  BY <1>1, <1>2, <1>3, <1>4, <1>5, <1>6 DEF UserInv

LEMMA MarkReadFailsUsers ==
  ASSUME CopyInv, CopyInv', UserInv, NEW c \in Conns, MarkReadFails(c)
  PROVE  UserInv'
<1>1. NamesKnown'
  BY DEF UserInv, NamesKnown, Renaming, MarkReadFails, Step, nameVars
<1>2. Tables'
  BY PresenceAssumption DEF UserInv, Tables, MarkReadFails, Fault, copyVars
<1>3. SharingKnown'
  BY SharingStays DEF UserInv, CopyInv, Stages, Present, MarkReadFails, Step, nameVars
<1>4. StillOnline'
  BY DEF UserInv, StillOnline, Renaming, MarkReadFails, Step, nameVars
<1>5. NoGhost'
  BY DEF UserInv, NoGhost, MarkReadFails, Step, nameVars
<1>6. Counts'
  BY DEF UserInv, Counts, AboutToCount, MarkReadFails, dmVars
<1>7. LateOnce'
  BY DEF UserInv, LateOnce, Tables, MarkReadFails, Fault
<1>. QED
  BY <1>1, <1>2, <1>3, <1>4, <1>5, <1>6, <1>7 DEF UserInv

LEMMA LeaveUsers ==
  ASSUME CopyInv, CopyInv', UserInv, NEW c \in Conns, Leave(c)
  PROVE  UserInv'
<1>1. (Tables /\ NamesKnown /\ Counts)'
  BY DEF UserInv, Tables, Renaming, NamesKnown, Counts, AboutToCount,
      Leave, Step, copyVars, dmVars, nameVars
<1>2. SharingKnown'
  BY SharingStays DEF UserInv, CopyInv, Stages, Present, Leave, Step, nameVars
<1>3. StillOnline'
  BY DEF UserInv, StillOnline, Renaming, Leave, Step, nameVars
<1>4. NoGhost'
  BY DEF UserInv, NoGhost, Leave, Step, nameVars
<1>5. LateOnce'
  BY DEF UserInv, LateOnce, AboutToCount, Renaming, Leave, Step, dmVars,
      nameVars
<1>. QED
  BY <1>1, <1>2, <1>3, <1>4, <1>5 DEF UserInv

\* Whoever leaves takes out his own name, which is nobody else's.
LEMMA GoOfflineUsers ==
  ASSUME CopyInv, CopyInv', UserInv, NEW c \in Conns, GoOffline(c)
  PROVE  UserInv'
<1>1. (Tables /\ NamesKnown /\ Counts)'
  BY DEF UserInv, Tables, Renaming, NamesKnown, Counts, AboutToCount,
      GoOffline, Step, copyVars, dmVars, nameVars
<1>2. SharingKnown'
  BY SharingStays DEF UserInv, CopyInv, Stages, Present, GoOffline, Step, nameVars
<1>3. StillOnline'
  BY DEF UserInv, CopyInv, Stages, StillOnline, SharingKnown, Present, Entries,
      NamesKnown, GoOffline, Step, nameVars
<1>4. NoGhost'
  BY DEF UserInv, NoGhost, GoOffline, Step, nameVars
<1>5. LateOnce'
  BY DEF UserInv, LateOnce, AboutToCount, Renaming, GoOffline, Step,
      dmVars, nameVars
<1>. QED
  BY <1>1, <1>2, <1>3, <1>4, <1>5 DEF UserInv

LEMMA SayUsers ==
  ASSUME CopyInv, CopyInv', UserInv, NEW c \in Conns, Say(c)
  PROVE  UserInv'
<1>1. (Tables /\ NamesKnown /\ StillOnline /\ NoGhost /\ LateOnce)'
  BY DEF UserInv, Tables, Renaming, NamesKnown, StillOnline,
      NoGhost, LateOnce, AboutToCount, Say, connVars, copyVars, nameVars
<1>2. Counts'
  BY PresenceAssumption DEF UserInv, CopyInv, Stages, Counts, AboutToCount, Say
<1>3. SharingKnown'
  BY SharingStays DEF UserInv, Present, Say, connVars, nameVars
<1>. QED
  BY <1>1, <1>3, <1>2 DEF UserInv

\* Whoever has written goes on.
GoesOn(c) ==
  \/ conn'[c] = conn[c]
  \/ conn[c] = "online" /\ conn'[c] = "synced"
  \/ conn[c] = "renamed" /\ conn'[c] = "reading"
  \/ conn[c] = "offline" /\ conn'[c] = "gone"

LEMMA SyncedMoves ==
  ASSUME CopyInv, NEW s \in Syncers, Synced(s)
  PROVE  /\ \A c \in Conns : GoesOn(c)
         /\ rename' = rename \/ (Renaming /\ rename' = [rename EXCEPT !.pc = "answered"])
<1>1. WantsSync(s)
  BY DEF CopyInv, MutexHeld, Synced
<1>2. CASE s \in Conns
  <2>1. conn[s] \in {"online", "renamed", "offline"} /\ rename' = rename
    BY <1>1, <1>2, PresenceAssumption DEF WantsSync, Synced
  <2>2. conn' = [conn EXCEPT ![s] = After[conn[s]]]
    BY <1>2 DEF Synced
  <2>3. After["online"] = "synced" /\ After["renamed"] = "reading" /\ After["offline"] = "gone"
    BY DEF After
  <2>. QED
    BY <2>1, <2>2, <2>3 DEF GoesOn
<1>3. CASE s \notin Conns
  BY <1>1, <1>3, PresenceAssumption DEF WantsSync, Synced, Renaming, GoesOn
<1>. QED
  BY <1>2, <1>3

LEMMA SyncedUsers ==
  ASSUME CopyInv, CopyInv', UserInv, NEW s \in Syncers, Exec(s) \/ ExecFails(s)
  PROVE  UserInv'
<1>. Synced(s) /\ UNCHANGED <<owner, name, updates, contested, online, inbox, count, unread, said, token>>
  BY DEF Exec, ExecFails, Synced, dmVars
<1>1. /\ \A c \in Conns : GoesOn(c)
      /\ rename' = rename \/ (Renaming /\ rename' = [rename EXCEPT !.pc = "answered"])
  BY SyncedMoves
<1>2. /\ Renaming' = Renaming
      /\ rename'.by = rename.by /\ rename'.old = rename.old /\ rename'.new = rename.new
  BY <1>1 DEF CopyInv, Stages, Renaming
<1>3. Tables'
  <2>1. refresher' \in {"idle", "active"}
    BY DEF UserInv, Tables, Synced
  <2>2. CASE Exec(s)
    <3>1. copy' \in SUBSET Names
      BY <2>2 DEF CopyInv, Stages, Exec, Synced
    <3>2. {indexed', dirty', orphan'} \subseteq BOOLEAN /\ reader' = reader
      BY <2>2 DEF UserInv, Tables, Exec, Synced
    <3>3. UNCHANGED <<updates, contested>> /\ faults' = faults
      BY <2>2 DEF Exec
    <3>. QED
      BY <2>1, <3>1, <3>2, <3>3 DEF UserInv, Tables
  <2>3. CASE ExecFails(s)
    <3>1. {indexed', dirty', orphan'} \subseteq BOOLEAN /\ reader' = reader
      BY <2>3 DEF UserInv, Tables, ExecFails, Synced
    <3>2. UNCHANGED <<updates, contested>> /\ copy' = copy /\ faults' \in 0 .. MaxFaults
      BY <2>3, PresenceAssumption DEF UserInv, Tables, ExecFails, Fault
    <3>. QED
      BY <2>1, <3>1, <3>2 DEF UserInv, Tables
  <2>. QED
    BY <2>2, <2>3
<1>4. SharingKnown'
  BY <1>1, <1>2, SharingStays DEF UserInv, Present, GoesOn
<1>5. NamesKnown'
  BY <1>1, <1>2 DEF UserInv, NamesKnown, GoesOn
<1>6. StillOnline'
  BY <1>1, <1>2 DEF UserInv, StillOnline, GoesOn
<1>7. NoGhost'
  BY <1>1, <1>2 DEF UserInv, NoGhost, GoesOn
<1>8. Counts'
  BY DEF UserInv, Counts, AboutToCount
<1>9. LateOnce'
  <2>1. faults' = 0 => faults = 0
    BY DEF Exec, ExecFails, Fault, UserInv, Tables
  <2>. QED
    BY <1>1, <1>2, <2>1 DEF UserInv, LateOnce, AboutToCount, NamesKnown, GoesOn
<1>. QED
  BY <1>3, <1>4, <1>5, <1>6, <1>7, <1>8, <1>9 DEF UserInv

\* Nothing is counted for who is online.
LEMMA DecideUsers ==
  ASSUME CopyInv, CopyInv', UserInv, Decide
  PROVE  UserInv'
<1>1. (Tables /\ NamesKnown /\ StillOnline /\ NoGhost)'
  BY DEF UserInv, Tables, Renaming, NamesKnown, StillOnline,
      NoGhost, Decide, connVars, copyVars, nameVars
<1>2. Counts'
  BY PartnerInPair, PresenceAssumption DEF UserInv, Counts, AboutToCount, Decide
<1>3. LateOnce'
  <2> SUFFICES ASSUME NEW c \in Conns, conn[c] = "reading", c \notin contested,
                      updates[c] = 0, ~Renaming, faults = 0
               PROVE  unread[owner[c]] + AboutToCount(owner[c])' <= 1
    BY DEF Decide, LateOnce, Renaming, connVars, nameVars
  <2>1. name[c] = owner[c] /\ rename = NoRename
    BY DEF UserInv, NamesKnown
  <2>2. owner[c] \in online /\ owner[c] # None
    BY <2>1, PresenceAssumption DEF UserInv, StillOnline, CopyInv, Stages, NoRename
  <2>3. count' # owner[c]
    BY <2>2 DEF Decide
  <2>4. unread[owner[c]] + AboutToCount(owner[c]) <= 1 /\ unread[owner[c]] \in Nat
    BY DEF UserInv, LateOnce, Counts, CopyInv, Stages
  <2>5. AboutToCount(owner[c])' = 0
    BY <2>3 DEF AboutToCount, Decide, connVars
  <2>6. AboutToCount(owner[c]) \in {0, 1}
    BY DEF AboutToCount
  <2> QED
    BY <2>4, <2>5, <2>6
<1>4. SharingKnown'
  BY SharingStays DEF UserInv, Present, Decide, connVars, nameVars
<1>. QED
  BY <1>1, <1>4, <1>2, <1>3 DEF UserInv

LEMMA CountUsers ==
  ASSUME CopyInv, CopyInv', UserInv, Count
  PROVE  UserInv'
<1>1. (Tables /\ NamesKnown /\ StillOnline /\ NoGhost)'
  BY DEF UserInv, Tables, Renaming, NamesKnown, StillOnline,
      NoGhost, Count, connVars, copyVars, nameVars
<1>2. Counts'
  BY PresenceAssumption DEF UserInv, Counts, AboutToCount, Count
<1>3. LateOnce'
  BY PresenceAssumption DEF UserInv, CopyInv, Stages, LateOnce, AboutToCount, Renaming,
      Counts, Count, connVars, nameVars
<1>4. SharingKnown'
  BY SharingStays DEF UserInv, Present, Count, connVars, nameVars
<1>. QED
  BY <1>1, <1>4, <1>2, <1>3 DEF UserInv

LEMMA CountFailsUsers ==
  ASSUME CopyInv, CopyInv', UserInv, CountFails
  PROVE  UserInv'
<1>1. (NamesKnown /\ StillOnline /\ NoGhost)'
  BY DEF UserInv, NamesKnown, Renaming, StillOnline, NoGhost,
      CountFails, connVars, nameVars
<1>2. Tables'
  BY PresenceAssumption DEF UserInv, Tables, CountFails, Fault, connVars, copyVars
<1>3. Counts'
  BY PresenceAssumption DEF UserInv, Counts, AboutToCount, CountFails
<1>4. LateOnce'
  BY DEF UserInv, LateOnce, Tables, CountFails, Fault
<1>5. SharingKnown'
  BY SharingStays DEF UserInv, Present, CountFails, connVars, nameVars
<1>. QED
  BY <1>1, <1>5, <1>2, <1>3, <1>4 DEF UserInv

\* The new name is nobody's.
LEMMA RenameStoredUsers ==
  ASSUME CopyInv, CopyInv', UserInv, NEW c \in Conns, NEW new \in Names, RenameStored(c, new)
  PROVE  UserInv'
<1>1. (Tables /\ Counts)'
  BY DEF UserInv, Tables, Sharing, Counts, AboutToCount, RenameStored,
      connVars, copyVars, dmVars
<1>2. NamesKnown'
  BY DEF UserInv, CopyInv, Stages, NamesKnown, Renaming, RenameStored,
      NoRename, connVars
<1>3. StillOnline'
  BY DEF UserInv, StillOnline, RenameStored, NoRename, connVars
<1>4. NoGhost'
  BY PresenceAssumption DEF UserInv, CopyInv, Stages, NoGhost, RenameStored, NoRename,
      connVars
<1>5. LateOnce'
  BY DEF UserInv, LateOnce, Renaming, RenameStored
<1>6. SharingKnown'
  BY SharingNoted DEF RenameStored
<1>. QED
  BY <1>1, <1>6, <1>2, <1>3, <1>4, <1>5 DEF UserInv

LEMMA RenameEditedUsers ==
  ASSUME CopyInv, CopyInv', UserInv, RenameEdited
  PROVE  UserInv'
<1>1. (Tables /\ Counts)'
  BY DEF UserInv, Tables, Counts, AboutToCount, RenameEdited,
      connVars, copyVars, dmVars
<1>2. NamesKnown'
  BY DEF UserInv, NamesKnown, Renaming, RenameEdited, connVars
<1>3. StillOnline'
  BY DEF UserInv, StillOnline, Renaming, RenameEdited, connVars
<1>4. NoGhost'
  BY DEF UserInv, NoGhost, RenameEdited, connVars
<1>5. LateOnce'
  BY DEF UserInv, LateOnce, Renaming, RenameEdited
<1>6. SharingKnown'
  BY SharingStays DEF UserInv, CopyInv, Stages, Present, RenameEdited, connVars
<1>. QED
  BY <1>1, <1>6, <1>2, <1>3, <1>4, <1>5 DEF UserInv

LEMMA RenameAnsweredUsers ==
  ASSUME CopyInv, CopyInv', UserInv, RenameAnswered
  PROVE  UserInv'
<1>1. (Tables /\ StillOnline /\ NoGhost /\ Counts /\ LateOnce)'
  BY DEF UserInv, Tables, Renaming, StillOnline, NoGhost,
      Counts, AboutToCount, LateOnce, RenameAnswered, connVars, copyVars, dmVars
<1>2. NamesKnown'
  BY DEF UserInv, NamesKnown, Renaming, RenameAnswered, connVars
<1>3. SharingKnown'
  BY SharingStays DEF UserInv, CopyInv, Stages, Present, RenameAnswered, connVars
<1>. QED
  BY <1>1, <1>3, <1>2 DEF UserInv

\* The new name comes for the old one, unless it is there already.
LEMMA RenameOnSocketUsers ==
  ASSUME CopyInv, CopyInv', UserInv, NEW c \in Conns, NEW new \in Names, RenameOnSocket(c, new)
  PROVE  UserInv'
<1>1. (Tables /\ Counts)'
  <2>1. updates' \in [Conns -> 0 .. MaxUpdates]
    BY PresenceAssumption DEF UserInv, Tables, RenameOnSocket
  <2>2. contested' \in SUBSET Conns
    BY DEF UserInv, Tables, Sharing, RenameOnSocket
  <2> QED
    BY <2>1, <2>2 DEF UserInv, Tables, Counts, AboutToCount, RenameOnSocket, copyVars,
       dmVars
<1>2. SharingKnown'
  BY SharingNoted DEF RenameOnSocket
<1>3. NamesKnown'
  <2>1. updates'[c] # 0 /\ \A d \in Conns \ {c} : updates'[d] = updates[d]
    BY PresenceAssumption DEF UserInv, Tables, RenameOnSocket
  <2>2. /\ UNCHANGED <<owner, token, rename>>
        /\ \A d \in Conns \ {c} : conn'[d] = conn[d] /\ name'[d] = name[d]
    BY DEF RenameOnSocket, Step, CopyInv, Stages, nameVars
  <2> QED
    BY <2>1, <2>2 DEF UserInv, NamesKnown, Renaming
<1>4. StillOnline'
  <2> SUFFICES ASSUME NEW d \in Conns, d \notin contested',
                      conn'[d] \in {"online", "synced", "reading", "renamed", "left"}
               PROVE  name'[d] \in online' \/ (name'[d] = rename.old /\ rename.new \in online')
    BY DEF StillOnline, RenameOnSocket, nameVars
  <2>0. /\ conn[c] = "reading" /\ d \notin contested
        /\ online' = IF online = {} THEN online ELSE (online \ {name[c]}) \cup {new}
        /\ name'[c] = new /\ \A x \in Conns \ {c} : conn'[x] = conn[x] /\ name'[x] = name[x]
    BY DEF RenameOnSocket, Step, CopyInv, Stages
  <2>1. CASE d = c
    <3>1. online # {}
      BY <2>0, <2>1 DEF UserInv, StillOnline
    <3> QED
      BY <2>0, <2>1, <3>1
  <2>2. CASE d # c
    <3>1. name[d] \in online \/ (name[d] = rename.old /\ rename.new \in online)
      BY <2>0, <2>2 DEF UserInv, StillOnline
    <3>2. name[c] \notin Entries(d)
      BY <2>0, <2>2 DEF UserInv, SharingKnown, Present, Entries
    <3> QED
      BY <2>0, <2>2, <3>1, <3>2 DEF Entries
  <2> QED
    BY <2>1, <2>2
<1>5. NoGhost'
  <2> SUFFICES ASSUME NEW u \in online', u # rename.new
               PROVE  \E d \in Conns : name'[d] = u /\
                        conn'[d] \in {"online", "synced", "reading", "renamed", "left"}
    BY DEF NoGhost, RenameOnSocket, nameVars
  <2>1. /\ u = new \/ (u \in online /\ u # name[c]) \/ online' = {}
        /\ name'[c] = new /\ conn'[c] = "renamed"
        /\ \A x \in Conns \ {c} : conn'[x] = conn[x] /\ name'[x] = name[x]
    BY DEF RenameOnSocket, Step, CopyInv, Stages
  <2>2. ASSUME u \in online, u # name[c]
        PROVE  \E d \in Conns \ {c} : name[d] = u /\
                 conn[d] \in {"online", "synced", "reading", "renamed", "left"}
    BY <2>2 DEF UserInv, NoGhost
  <2> QED
    BY <2>1, <2>2
<1>6. LateOnce'
  <2> SUFFICES ASSUME NEW d \in Conns, conn'[d] = "reading", d \notin contested',
                      updates'[d] = 0, ~Renaming, faults = 0
               PROVE  unread[owner[d]] + AboutToCount(owner[d]) <= 1
    BY DEF LateOnce, Renaming, AboutToCount, RenameOnSocket, dmVars, nameVars
  <2>1. d # c /\ conn[d] = "reading" /\ d \notin contested /\ updates[d] = 0
    BY DEF RenameOnSocket, Step, CopyInv, Stages, UserInv, Tables
  <2> QED
    BY <2>1 DEF UserInv, LateOnce
<1>. QED
  BY <1>1, <1>2, <1>3, <1>4, <1>5, <1>6 DEF UserInv

\* With the host everybody is gone.
LEMMA CrashUsers ==
  ASSUME CopyInv, CopyInv', UserInv, Crash
  PROVE  UserInv'
<1>1. Tables'
  BY PresenceAssumption DEF UserInv, Tables, Crash, Fault
<1>2. SharingKnown'
  BY SharingStays DEF UserInv, CopyInv, Stages, Present, Crash
<1>3. NamesKnown'
  BY DEF UserInv, CopyInv, Stages, NamesKnown, Renaming, Crash
<1>4. StillOnline'
  BY DEF UserInv, StillOnline, Crash
<1>5. NoGhost'
  BY DEF UserInv, NoGhost, Crash
<1>6. Counts'
  BY PresenceAssumption DEF UserInv, Counts, AboutToCount, Crash
<1>7. LateOnce'
  BY DEF UserInv, LateOnce, Crash
<1>. QED
  BY <1>1, <1>2, <1>3, <1>4, <1>5, <1>6, <1>7 DEF UserInv

LEMMA OtherUsers ==
  ASSUME CopyInv, CopyInv', UserInv,
         (\E s \in Syncers : Snapshot(s)) \/ Refresh \/ Expire \/ Read
  PROVE  UserInv'
<1>1. UNCHANGED <<connVars, online, inbox, count, unread, said, token, rename, faults>>
  BY DEF Snapshot, Refresh, Expire, Read, ReadIndex, ReadSet, ReadFails, DropIndex, connVars, dmVars, nameVars
<1>2. Tables'
  BY DEF UserInv, Tables, Snapshot, Refresh, Expire, Read, ReadIndex, ReadSet, ReadFails, DropIndex, connVars,
      copyVars
<1>3. SharingKnown'
  BY <1>1, SharingStays DEF UserInv, Present, connVars
<1>. QED
  BY <1>1, <1>3, <1>2 DEF UserInv, NamesKnown, StillOnline, NoGhost, Counts, LateOnce,
      AboutToCount, Renaming, connVars

\* A rename that another node serves moves its program counter only.
LEMMA RenameMovesUsers ==
  ASSUME CopyInv, CopyInv', UserInv, RenameElsewhere
  PROVE  UserInv'
<1>1. UNCHANGED <<connVars, online, copyVars, refresher, reader, dmVars, token, faults>>
  BY DEF RenameElsewhere
<1>2. /\ Renaming /\ Renaming'
      /\ rename'.by = rename.by /\ rename'.old = rename.old /\ rename'.new = rename.new
  BY DEF RenameElsewhere, CopyInv, Stages, Renaming
<1>3. SharingKnown'
  BY <1>1, <1>2, SharingStays DEF UserInv, Present, connVars
<1>. QED
  BY <1>1, <1>3, <1>2 DEF UserInv, Tables, NamesKnown, StillOnline, NoGhost, Counts,
      LateOnce, AboutToCount, connVars, copyVars, dmVars

-----------------------------------------------------------------------------
(* The theorems.                                                           *)

\* CopyInv and UserInv hold in every reachable state: each step keeps them.
THEOREM UserInvariant == Spec => [](CopyInv /\ UserInv)
<1>1. Init => UserInv
  <2>. SUFFICES ASSUME Init  PROVE UserInv
    OBVIOUS
  <2>1. ~Renaming /\ rename = NoRename /\ \A u \in Pair : ~(count = u)
    BY PresenceAssumption DEF Init, Renaming, NoRename
  <2>2. Tables
    <3>1. {indexed, dirty, orphan} \subseteq BOOLEAN /\ reader = "idle"
      BY DEF Init
    <3>. QED
      BY <3>1, PresenceAssumption DEF Init, Tables
  <2>5. SharingKnown /\ StillOnline /\ NoGhost
    BY DEF Init, SharingKnown, Present, StillOnline, NoGhost
  <2>3. NamesKnown
    BY <2>1, PresenceAssumption DEF Init, NamesKnown
  <2>4. Counts /\ LateOnce
    BY <2>1, PresenceAssumption DEF Init, Counts, LateOnce, AboutToCount
  <2>. QED
    BY <2>2, <2>3, <2>4, <2>5 DEF UserInv
<1>2. CopyInv /\ CopyInv' /\ UserInv /\ [Next]_vars => UserInv'
  <2>. SUFFICES ASSUME CopyInv, CopyInv', UserInv, [Next]_vars  PROVE UserInv'
    OBVIOUS
  <2>1. ASSUME NEW c \in Conns, Connection(c)  PROVE UserInv'
    BY <2>1, JoinUsers, GoOnlineUsers, MarkReadUsers, MarkReadFailsUsers, LeaveUsers,
       GoOfflineUsers, SayUsers DEF Connection
  <2>2. ASSUME NEW s \in Syncers, Sync(s)  PROVE UserInv'
    BY <2>2, SyncedUsers, OtherUsers DEF Sync
  <2>3. CASE Rename
    BY <2>3, RenameStoredUsers, RenameEditedUsers, RenameAnsweredUsers, RenameOnSocketUsers,
       RenameMovesUsers DEF Rename
  <2>4. CASE Unread
    BY <2>4, DecideUsers, CountUsers, CountFailsUsers DEF Unread
  <2>5. CASE Read \/ Refresh \/ Expire \/ Crash
    BY <2>5, OtherUsers, CrashUsers
  <2>6. CASE UNCHANGED vars
    BY <2>6 DEF vars, UserInv, Tables, SharingKnown, Present, Entries, NamesKnown, StillOnline, NoGhost, Counts,
      LateOnce, AboutToCount, Renaming, connVars, copyVars, dmVars, nameVars
  <2>. QED
    BY <2>1, <2>2, <2>3, <2>4, <2>5, <2>6 DEF Next
<1>. QED
  BY <1>1, <1>2, CopyInvariant, PTL DEF Spec

\* Whoever is looking at the room is online, however many others come, go, crash and
\* take whatever names, unless another connection has shared its entry: a rename
\* over HTTP puts the new name there before readPump knows of it.
THEOREM ReadersAreOnline == Spec => []ReaderIsOnline
<1>1. UserInv => ReaderIsOnline
  BY DEF UserInv, StillOnline, ReaderIsOnline
<1>. QED
  BY <1>1, UserInvariant, PTL

\* Whoever is online has a connection, or came in with a rename over HTTP.
THEOREM NobodyHaunts == Spec => []NoGhost
<1>1. UserInv => NoGhost
  BY DEF UserInv
<1>. QED
  BY <1>1, UserInvariant, PTL

\* Whoever is looking at the conversation has at most one message counted, the one
\* recordUnreadDM had decided on before he came in.
THEOREM OnlyOneLate == Spec => []AtMostOneLate
<1>1. CopyInv /\ UserInv => AtMostOneLate
  BY DEF CopyInv, Stages, UserInv, LateOnce, AboutToCount, Counts,
      AtMostOneLate, NoRename, Renaming
<1>. QED
  BY <1>1, UserInvariant, PTL

\* The tables keep their types, and nothing is counted that was not said.
THEOREM PresenceTypes == Spec => []TypeOK
<1>1. CopyInv /\ UserInv => TypeOK
  <2>. SUFFICES ASSUME CopyInv, UserInv  PROVE TypeOK
    OBVIOUS
  <2>1. unread \in [Pair -> 0 .. MaxSaid]
    BY PresenceAssumption DEF UserInv, Counts, AboutToCount
  <2>. QED
    BY <2>1 DEF CopyInv, Stages, UserInv, Tables, Counts, TypeOK
<1>. QED
  BY <1>1, UserInvariant, PTL
=============================================================================
