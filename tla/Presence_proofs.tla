-------------------------- MODULE Presence_proofs --------------------------
(***************************************************************************)
(* The copy of onlineUsers in Redis never drifts, for any number of        *)
(* connections: whoever changes onlineUsers has yet to write, and the      *)
(* mutex lets nobody write what is older than the last change.             *)
(***************************************************************************)
EXTENDS Presence, TLAPS

\* The types the steps below need.
Stages ==
  /\ owner \in [Conns -> Pair] /\ token \in [Pair -> Names]
  /\ name \in [Conns -> Names] /\ online \in SUBSET Names
  /\ conn \in [Conns -> {"new", "joined", "online", "synced", "reading", "renamed",
                         "left", "offline", "gone"}]
  /\ snap \in [Syncers -> (SUBSET Names) \cup {None}]
  /\ rename \in [pc : {"idle", "stored", "edited", "answered", "done"},
                 by : Conns \cup {None}, old : Names \cup {None}, new : Names \cup {None}]
  /\ rename.pc # "idle" => rename.by \in Conns /\ rename.new \in Names

\* Only who has to write holds the mutex, and nobody else at the time.
MutexHeld ==
  /\ \A s \in Syncers : snap[s] # None => WantsSync(s)
  /\ \A s, t \in Syncers : snap[s] # None /\ snap[t] # None => s = t

\* What is about to be written is current, unless somebody else has changed
\* onlineUsers and is to write later.
SnapIsCurrent ==
  \A s \in Syncers :
    snap[s] # None /\ (\A t \in (Conns \cup {Http}) \ {s} : ~WantsSync(t))
      => snap[s] = online

CopyInv == Stages /\ MutexHeld /\ SnapIsCurrent /\ CopyIsCurrent

\* A connection that is admitted changes nothing the writers know of.
LEMMA JoinStep ==
  ASSUME CopyInv, NEW c \in Conns, Join(c)
  PROVE  CopyInv'
<1> USE PresenceAssumption
        DEF CopyInv, Stages, MutexHeld, WantsSync, Syncers,
            connVars, copyVars, dmVars, nameVars
<1> USE DEF Join, Step
<1>1. Stages'
  OBVIOUS
<1>2. MutexHeld'
  OBVIOUS
<1>3. SnapIsCurrent'
  BY DEF SnapIsCurrent
<1>4. CopyIsCurrent'
  BY DEF SnapIsCurrent, CopyIsCurrent, Quiet
<1> QED  BY <1>1, <1>2, <1>3, <1>4

\* A connection that changes onlineUsers becomes one that has to write.
LEMMA GoOnlineStep ==
  ASSUME CopyInv, NEW c \in Conns, GoOnline(c)
  PROVE  CopyInv'
<1> USE PresenceAssumption
        DEF CopyInv, Stages, MutexHeld, WantsSync, Syncers,
            connVars, copyVars, dmVars, nameVars
<1> USE DEF GoOnline, Step
<1>1. Stages'
  OBVIOUS
<1>2. MutexHeld'
  OBVIOUS
<1>3. SnapIsCurrent'
  BY DEF SnapIsCurrent
<1>4. CopyIsCurrent'
  BY DEF SnapIsCurrent, CopyIsCurrent, Quiet
<1> QED  BY <1>1, <1>2, <1>3, <1>4

\* So does one that leaves.
LEMMA GoOfflineStep ==
  ASSUME CopyInv, NEW c \in Conns, GoOffline(c)
  PROVE  CopyInv'
<1> USE PresenceAssumption
        DEF CopyInv, Stages, MutexHeld, WantsSync, Syncers,
            connVars, copyVars, dmVars, nameVars
<1> USE DEF GoOffline, Step
<1>1. Stages'
  OBVIOUS
<1>2. MutexHeld'
  OBVIOUS
<1>3. SnapIsCurrent'
  BY DEF SnapIsCurrent
<1>4. CopyIsCurrent'
  BY DEF SnapIsCurrent, CopyIsCurrent, Quiet
<1> QED  BY <1>1, <1>2, <1>3, <1>4

\* Between its two writes a connection has nothing to write.
LEMMA MarkReadStep ==
  ASSUME CopyInv, NEW c \in Conns, MarkRead(c) \/ MarkReadFails(c)
  PROVE  CopyInv'
<1> USE PresenceAssumption
        DEF CopyInv, Stages, MutexHeld, WantsSync, Syncers,
            connVars, copyVars, dmVars, nameVars
<1> USE DEF MarkRead, MarkReadFails, Step
<1>1. Stages'
  OBVIOUS
<1>2. MutexHeld'
  OBVIOUS
<1>3. SnapIsCurrent'
  BY DEF SnapIsCurrent
<1>4. CopyIsCurrent'
  BY DEF SnapIsCurrent, CopyIsCurrent, Quiet
<1> QED  BY <1>1, <1>2, <1>3, <1>4

\* The clean-up begins.
LEMMA LeaveStep ==
  ASSUME CopyInv, NEW c \in Conns, Leave(c)
  PROVE  CopyInv'
<1> USE PresenceAssumption
        DEF CopyInv, Stages, MutexHeld, WantsSync, Syncers,
            connVars, copyVars, dmVars, nameVars
<1> USE DEF Leave, Step
<1>1. Stages'
  OBVIOUS
<1>2. MutexHeld'
  OBVIOUS
<1>3. SnapIsCurrent'
  BY DEF SnapIsCurrent
<1>4. CopyIsCurrent'
  BY DEF SnapIsCurrent, CopyIsCurrent, Quiet
<1> QED  BY <1>1, <1>2, <1>3, <1>4

\* Whoever gets the mutex is the only one, and reads onlineUsers as it is.
LEMMA SnapshotStep ==
  ASSUME CopyInv, NEW s \in Syncers, Snapshot(s)
  PROVE  CopyInv'
<1> USE PresenceAssumption
        DEF CopyInv, Stages, MutexHeld, WantsSync, Syncers,
            connVars, copyVars, dmVars, nameVars
<1> USE DEF Snapshot, MutexFree
<1>1. Stages'
  OBVIOUS
<1>2. MutexHeld'
  OBVIOUS
<1>3. SnapIsCurrent'
  BY DEF SnapIsCurrent
<1>4. CopyIsCurrent'
  BY DEF SnapIsCurrent, CopyIsCurrent, Quiet
<1> QED  BY <1>1, <1>2, <1>3, <1>4

\* The write is current, unless somebody has still to write.
LEMMA ExecStep ==
  ASSUME CopyInv, NEW s \in Syncers, Exec(s)
  PROVE  CopyInv'
<1> USE PresenceAssumption
        DEF CopyInv, Stages, MutexHeld, WantsSync, Syncers,
            connVars, copyVars, dmVars, nameVars
<1> USE DEF Exec, Synced, After
<1>1. Stages'
  OBVIOUS
<1>2. MutexHeld'
  OBVIOUS
<1>3. SnapIsCurrent'
  BY DEF SnapIsCurrent
<1>4. CopyIsCurrent'
  BY DEF SnapIsCurrent, CopyIsCurrent, Quiet
<1> QED  BY <1>1, <1>2, <1>3, <1>4

\* A write that fails marks the copy as dirty.
LEMMA ExecFailsStep ==
  ASSUME CopyInv, NEW s \in Syncers, ExecFails(s)
  PROVE  CopyInv'
<1> USE PresenceAssumption
        DEF CopyInv, Stages, MutexHeld, WantsSync, Syncers,
            connVars, copyVars, dmVars, nameVars
<1> USE DEF ExecFails, Synced, After
<1>1. Stages'
  OBVIOUS
<1>2. MutexHeld'
  OBVIOUS
<1>3. SnapIsCurrent'
  BY DEF SnapIsCurrent
<1>4. CopyIsCurrent'
  BY DEF SnapIsCurrent, CopyIsCurrent, Quiet
<1> QED  BY <1>1, <1>2, <1>3, <1>4

\* The account's rename touches no table of the node.
LEMMA RenameStoredStep ==
  ASSUME CopyInv, NEW c \in Conns, NEW new \in Names, RenameStored(c, new)
  PROVE  CopyInv'
<1> USE PresenceAssumption
        DEF CopyInv, Stages, MutexHeld, WantsSync, Syncers,
            connVars, copyVars, dmVars, nameVars
<1> USE DEF RenameStored, NoRename
<1>1. Stages'
  OBVIOUS
<1>2. MutexHeld'
  OBVIOUS
<1>3. SnapIsCurrent'
  BY DEF SnapIsCurrent
<1>4. CopyIsCurrent'
  BY DEF SnapIsCurrent, CopyIsCurrent, Quiet
<1> QED  BY <1>1, <1>2, <1>3, <1>4

\* The handler of the rename has to write once it has edited onlineUsers.
LEMMA RenameEditedStep ==
  ASSUME CopyInv, RenameEdited
  PROVE  CopyInv'
<1> USE PresenceAssumption
        DEF CopyInv, Stages, MutexHeld, WantsSync, Syncers,
            connVars, copyVars, dmVars, nameVars
<1> USE DEF RenameEdited
<1>1. Stages'
  OBVIOUS
<1>2. MutexHeld'
  OBVIOUS
<1>3. SnapIsCurrent'
  BY DEF SnapIsCurrent
<1>4. CopyIsCurrent'
  BY DEF SnapIsCurrent, CopyIsCurrent, Quiet
<1> QED  BY <1>1, <1>2, <1>3, <1>4

\* And so has a connection that takes a name on its socket.
LEMMA RenameOnSocketStep ==
  ASSUME CopyInv, NEW c \in Conns, NEW new \in Names, RenameOnSocket(c, new)
  PROVE  CopyInv'
<1> USE PresenceAssumption
        DEF CopyInv, Stages, MutexHeld, WantsSync, Syncers,
            connVars, copyVars, dmVars, nameVars
<1> USE DEF RenameOnSocket, Step
<1>1. Stages'
  OBVIOUS
<1>2. MutexHeld'
  OBVIOUS
<1>3. SnapIsCurrent'
  BY DEF SnapIsCurrent
<1>4. CopyIsCurrent'
  BY DEF SnapIsCurrent, CopyIsCurrent, Quiet
<1> QED  BY <1>1, <1>2, <1>3, <1>4

\* The rename's other steps leave onlineUsers and the writers alone.
LEMMA RenameMovesStep ==
  ASSUME CopyInv, RenameElsewhere \/ RenameAnswered
  PROVE  CopyInv'
<1> USE PresenceAssumption
        DEF CopyInv, Stages, MutexHeld, WantsSync, Syncers,
            connVars, copyVars, dmVars, nameVars
<1> USE DEF RenameElsewhere, RenameAnswered
<1>1. Stages'
  OBVIOUS
<1>2. MutexHeld'
  OBVIOUS
<1>3. SnapIsCurrent'
  BY DEF SnapIsCurrent
<1>4. CopyIsCurrent'
  BY DEF SnapIsCurrent, CopyIsCurrent, Quiet
<1> QED  BY <1>1, <1>2, <1>3, <1>4

\* The refresh reads onlineUsers again when it gets the mutex, and the copy expires
\* only if the host is dead or has nobody.
LEMMA RefreshStep ==
  ASSUME CopyInv, Refresh \/ Expire
  PROVE  CopyInv'
<1> USE PresenceAssumption
        DEF CopyInv, Stages, MutexHeld, WantsSync, Syncers,
            connVars, copyVars, dmVars, nameVars
<1> USE DEF Refresh, Expire
<1>1. Stages'
  OBVIOUS
<1>2. MutexHeld'
  OBVIOUS
<1>3. SnapIsCurrent'
  BY DEF SnapIsCurrent
<1>4. CopyIsCurrent'
  BY DEF SnapIsCurrent, CopyIsCurrent, Quiet
<1> QED  BY <1>1, <1>2, <1>3, <1>4

\* With the host everybody who held the mutex is gone.
LEMMA CrashStep ==
  ASSUME CopyInv, Crash
  PROVE  CopyInv'
<1> USE PresenceAssumption
        DEF CopyInv, Stages, MutexHeld, WantsSync, Syncers,
            connVars, copyVars, dmVars, nameVars
<1> USE DEF Crash
<1>1. Stages'
  OBVIOUS
<1>2. MutexHeld'
  OBVIOUS
<1>3. SnapIsCurrent'
  BY DEF SnapIsCurrent
<1>4. CopyIsCurrent'
  BY DEF SnapIsCurrent, CopyIsCurrent, Quiet
<1> QED  BY <1>1, <1>2, <1>3, <1>4

\* Messages and readers of the copy.
LEMMA OtherStep ==
  ASSUME CopyInv, (\E c \in Conns : Say(c)) \/ Unread \/ Read
  PROVE  CopyInv'
<1> USE PresenceAssumption
        DEF CopyInv, Stages, MutexHeld, WantsSync, Syncers,
            connVars, copyVars, dmVars, nameVars
<1> USE DEF Say, Unread, Decide, Count, CountFails, Read, ReadIndex, ReadSet, ReadFails,
       DropIndex
<1>1. Stages'
  OBVIOUS
<1>2. MutexHeld'
  OBVIOUS
<1>3. SnapIsCurrent'
  BY DEF SnapIsCurrent
<1>4. CopyIsCurrent'
  BY DEF SnapIsCurrent, CopyIsCurrent, Quiet
<1> QED  BY <1>1, <1>2, <1>3, <1>4

-----------------------------------------------------------------------------
\* The four conjuncts hold in every reachable state: each step keeps them.
THEOREM CopyInvariant == Spec => []CopyInv
<1>1. Init => CopyInv
  <2> SUFFICES ASSUME Init  PROVE CopyInv
    OBVIOUS
  <2>1. \A s \in Syncers : ~WantsSync(s) /\ snap[s] = None
    BY PresenceAssumption DEF Init, WantsSync, Syncers, NoRename
  <2>2. Stages
    BY PresenceAssumption DEF Init, Stages, Syncers, NoRename
  <2> QED  BY <2>1, <2>2 DEF Init, CopyInv, MutexHeld, SnapIsCurrent, CopyIsCurrent
<1>2. CopyInv /\ [Next]_vars => CopyInv'
  <2> SUFFICES ASSUME CopyInv, [Next]_vars  PROVE CopyInv'
    OBVIOUS
  <2>1. ASSUME NEW c \in Conns, Connection(c)  PROVE CopyInv'
    BY <2>1, JoinStep, GoOnlineStep, GoOfflineStep, MarkReadStep, LeaveStep, OtherStep
       DEF Connection
  <2>2. ASSUME NEW s \in Syncers, Sync(s)  PROVE CopyInv'
    BY <2>2, SnapshotStep, ExecStep, ExecFailsStep DEF Sync
  <2>3. CASE Rename
    BY <2>3, RenameStoredStep, RenameEditedStep, RenameOnSocketStep, RenameMovesStep
       DEF Rename
  <2>4. CASE Refresh \/ Expire \/ Crash
    BY <2>4, RefreshStep, CrashStep
  <2>5. CASE Unread \/ Read
    BY <2>5, OtherStep
  <2>6. CASE UNCHANGED vars
    BY <2>6 DEF vars, CopyInv, Stages, MutexHeld, SnapIsCurrent, CopyIsCurrent, Quiet,
                WantsSync, connVars, copyVars, nameVars
  <2> QED  BY <2>1, <2>2, <2>3, <2>4, <2>5, <2>6 DEF Next
<1> QED  BY <1>1, <1>2, PTL DEF Spec

\* When nobody is about to write and the last write got through, the copy in Redis
\* is what the host has, however many connections come, go and are renamed.
THEOREM CopyNeverDrifts == Spec => []CopyIsCurrent
  BY CopyInvariant, PTL DEF CopyInv
=============================================================================
