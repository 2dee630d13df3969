----------------------- MODULE RoomSubscription_proofs -----------------------
(***************************************************************************)
(* The safety of the subscription protocol for any number of connections   *)
(* and rooms.  IInv is inductive: one lemma per action, then the theorems. *)
(***************************************************************************)
EXTENDS RoomSubscription, TLAPS

\* The tables start empty.
LEMMA InitIInv == Init => IInv
<1> SUFFICES ASSUME Init PROVE IInv
  OBVIOUS
<1> QED
  BY NoneAssumption DEF Init, IInv, TypeOK, Membership, LockHeld, Started,
     Generations, Closing, RegisteredIsCurrent, JoinedRoomIsSubscribed,
     NoOrphanSubscriber

\* Only the handler of c moves; no client is registered yet.
LEMMA AcceptIInv ==
  ASSUME IInv, NEW c \in Conns, Accept(c)
  PROVE  IInv'
<1> USE NoneAssumption DEF IInv, Accept, psVars, flagVars, workVars, connVars
<1>1. TypeOK'
  BY DEF TypeOK
<1>2. Membership'
  BY DEF Membership, TypeOK, Started
<1>3. LockHeld'
  BY DEF LockHeld, TypeOK
<1>4. Started'
  BY DEF Started, TypeOK
<1>5. JoinedRoomIsSubscribed'
  BY DEF JoinedRoomIsSubscribed, TypeOK
<1>6. /\ Generations'
     /\ Closing'
     /\ RegisteredIsCurrent'
     /\ NoOrphanSubscriber'
  BY DEF Generations, Closing, RegisteredIsCurrent, NoOrphanSubscriber,
     BeingClosed
<1> QED
  BY <1>1, <1>2, <1>3, <1>4, <1>5, <1>6

\* A new member of the room, whose handler has not been through the table.
LEMMA JoinIInv ==
  ASSUME IInv, NEW c \in Conns, Join(c)
  PROVE  IInv'
<1> USE NoneAssumption DEF IInv, Join, psVars, flagVars, workVars, connVars
<1>1. TypeOK'
  BY DEF TypeOK
<1>2. Membership'
  BY DEF Membership, TypeOK, Started
<1>3. LockHeld'
  BY DEF LockHeld, TypeOK
<1>4. Started'
  BY DEF Started, TypeOK
<1>5. JoinedRoomIsSubscribed'
  BY DEF JoinedRoomIsSubscribed, TypeOK
<1>6. /\ Generations'
     /\ Closing'
     /\ RegisteredIsCurrent'
     /\ NoOrphanSubscriber'
  BY DEF Generations, Closing, RegisteredIsCurrent, NoOrphanSubscriber,
     BeingClosed
<1> QED
  BY <1>1, <1>2, <1>3, <1>4, <1>5, <1>6

\* The readPump of c starts before its handler is through the table.
LEMMA StartPumpsIInv ==
  ASSUME IInv, NEW c \in Conns, StartPumps(c)
  PROVE  IInv'
<1> USE NoneAssumption DEF IInv, StartPumps, psVars, flagVars, workVars, connVars
<1>1. TypeOK'
  BY DEF TypeOK
<1>2. Membership'
  BY DEF Membership, TypeOK, Started
<1>3. LockHeld'
  BY DEF LockHeld, TypeOK, Started
<1>4. Started'
  BY DEF Started, TypeOK
<1>5. JoinedRoomIsSubscribed'
  BY DEF JoinedRoomIsSubscribed, TypeOK
<1>6. NoOrphanSubscriber'
  BY DEF NoOrphanSubscriber, TypeOK, BeingClosed, Started
<1>7. Generations' /\ Closing' /\ RegisteredIsCurrent'
  BY DEF Generations, Closing, RegisteredIsCurrent
<1> QED
  BY <1>1, <1>2, <1>3, <1>4, <1>5, <1>6, <1>7

\* The client is past the table: subLock is free, and the flag is on.
LEMMA KeepSubscriptionIInv ==
  ASSUME IInv, NEW c \in Conns, KeepSubscription(c)
  PROVE  IInv'
<1> USE NoneAssumption DEF IInv, KeepSubscription, psVars, flagVars, workVars, connVars
<1>1. TypeOK'
  BY DEF TypeOK
<1>2. Membership'
  BY DEF Membership, TypeOK
<1>3. LockHeld'
  BY DEF LockHeld, TypeOK
<1>4. Started'
  BY DEF Started, TypeOK
<1>5. JoinedRoomIsSubscribed'
  BY DEF JoinedRoomIsSubscribed, TypeOK, Membership
<1>6. /\ Generations'
     /\ Closing'
     /\ RegisteredIsCurrent'
     /\ NoOrphanSubscriber'
  BY DEF Generations, Closing, RegisteredIsCurrent, NoOrphanSubscriber,
     BeingClosed
<1> QED
  BY <1>1, <1>2, <1>3, <1>4, <1>5, <1>6

\* The flag was off, so nothing is registered; the new generation is above all others.
LEMMA StartSubscriptionIInv ==
  ASSUME IInv, NEW c \in Conns, StartSubscription(c)
  PROVE  IInv'
<1> USE NoneAssumption DEF IInv, StartSubscription, psVars, flagVars, workVars, connVars
<1>1. TypeOK'
  BY DEF TypeOK
<1>2. Membership'
  BY DEF Membership, TypeOK
<1>3. LockHeld'
  BY DEF LockHeld, TypeOK
<1>4. Started'
  BY DEF Started, TypeOK
<1>5. Generations'
  BY DEF Generations, TypeOK, Started
<1>6. Closing'
  BY DEF Closing, TypeOK, Started
<1>7. RegisteredIsCurrent'
  BY DEF RegisteredIsCurrent, TypeOK, Started
<1>8. JoinedRoomIsSubscribed'
  BY DEF JoinedRoomIsSubscribed, TypeOK, Membership
<1>9. NoOrphanSubscriber'
  BY DEF NoOrphanSubscriber, TypeOK, BeingClosed
<1> QED
  BY <1>1, <1>2, <1>3, <1>4, <1>5, <1>6, <1>7, <1>8, <1>9

\* A member goes; the subscription table is untouched.
LEMMA LeaveIInv ==
  ASSUME IInv, NEW c \in Conns, Leave(c)
  PROVE  IInv'
<1> USE NoneAssumption DEF IInv, Leave, psVars, flagVars, workVars, connVars
<1>1. TypeOK'
  BY DEF TypeOK
<1>2. Membership'
  BY DEF Membership, TypeOK
<1>3. LockHeld'
  BY DEF LockHeld, TypeOK
<1>4. Started'
  BY DEF Started, TypeOK
<1>5. JoinedRoomIsSubscribed'
  BY DEF JoinedRoomIsSubscribed, TypeOK
<1>6. NoOrphanSubscriber'
  BY DEF NoOrphanSubscriber, TypeOK, BeingClosed
<1>7. Generations' /\ Closing' /\ RegisteredIsCurrent'
  BY DEF Generations, Closing, RegisteredIsCurrent
<1> QED
  BY <1>1, <1>2, <1>3, <1>4, <1>5, <1>6, <1>7

\* The readPump finds nothing to stop.
LEMMA StopNotNeededIInv ==
  ASSUME IInv, NEW c \in Conns, StopNotNeeded(c)
  PROVE  IInv'
<1> USE NoneAssumption DEF IInv, StopNotNeeded, psVars, flagVars, workVars, connVars
<1>1. TypeOK'
  BY DEF TypeOK
<1>2. Membership'
  BY DEF Membership, TypeOK
<1>3. LockHeld'
  BY DEF LockHeld, TypeOK
<1>4. Started'
  BY DEF Started, TypeOK
<1>5. NoOrphanSubscriber'
  BY DEF NoOrphanSubscriber, TypeOK, BeingClosed
<1>6. /\ Generations'
     /\ Closing'
     /\ RegisteredIsCurrent'
     /\ JoinedRoomIsSubscribed'
  BY DEF Generations, Closing, RegisteredIsCurrent, JoinedRoomIsSubscribed
<1> QED
  BY <1>1, <1>2, <1>3, <1>4, <1>5, <1>6

\* The room is empty when subLock is taken.
LEMMA StopCheckIInv ==
  ASSUME IInv, NEW c \in Conns, StopCheck(c)
  PROVE  IInv'
<1> USE NoneAssumption DEF IInv, StopCheck, psVars, flagVars, workVars, connVars
<1>1. TypeOK'
  BY DEF TypeOK
<1>2. Membership'
  BY DEF Membership, TypeOK
<1>3. LockHeld'
  BY DEF LockHeld, TypeOK
<1>4. Started'
  BY DEF Started, TypeOK
<1>5. NoOrphanSubscriber'
  BY DEF NoOrphanSubscriber, TypeOK, BeingClosed
<1>6. /\ Generations'
     /\ Closing'
     /\ RegisteredIsCurrent'
     /\ JoinedRoomIsSubscribed'
  BY DEF Generations, Closing, RegisteredIsCurrent, JoinedRoomIsSubscribed
<1> QED
  BY <1>1, <1>2, <1>3, <1>4, <1>5, <1>6

\* LockHeld: whoever joined since the check has not been through the table.
LEMMA StopClearIInv ==
  ASSUME IInv, NEW c \in Conns, StopClear(c)
  PROVE  IInv'
<1> USE NoneAssumption DEF IInv, StopClear, psVars, flagVars, workVars, connVars
<1>1. TypeOK'
  BY DEF TypeOK
<1>2. Membership'
  BY DEF Membership, TypeOK
<1>3. LockHeld'
  BY DEF LockHeld, TypeOK
<1>4. Started'
  BY DEF Started, TypeOK
<1>5. Closing'
  BY DEF Closing, TypeOK, RegisteredIsCurrent
<1>6. RegisteredIsCurrent'
  BY DEF RegisteredIsCurrent, TypeOK
<1>7. JoinedRoomIsSubscribed'
  BY DEF JoinedRoomIsSubscribed, TypeOK, LockHeld, Membership
<1>8. NoOrphanSubscriber'
  BY DEF NoOrphanSubscriber, TypeOK, BeingClosed, RegisteredIsCurrent
<1>9. Generations'
  BY DEF Generations
<1> QED
  BY <1>1, <1>2, <1>3, <1>4, <1>5, <1>6, <1>7, <1>8, <1>9

\* Closing: what c took out is not the registered PubSub of any room.
LEMMA StopCloseIInv ==
  ASSUME IInv, NEW c \in Conns, StopClose(c)
  PROVE  IInv'
<1> USE NoneAssumption DEF IInv, StopClose, psVars, flagVars, workVars, connVars
<1>1. TypeOK'
  BY DEF TypeOK
<1>2. Membership'
  BY DEF Membership, TypeOK
<1>3. LockHeld'
  BY DEF LockHeld, TypeOK
<1>4. Started'
  BY DEF Started, TypeOK
<1>5. Closing'
  BY DEF Closing, TypeOK
<1>6. RegisteredIsCurrent'
  BY DEF RegisteredIsCurrent, TypeOK, Closing
<1>7. NoOrphanSubscriber'
  BY DEF NoOrphanSubscriber, TypeOK, BeingClosed
<1>8. Generations' /\ JoinedRoomIsSubscribed'
  BY DEF Generations, JoinedRoomIsSubscribed
<1> QED
  BY <1>1, <1>2, <1>3, <1>4, <1>5, <1>6, <1>7, <1>8

\* The subscriber opens its PubSub.
LEMMA SubscribeIInv ==
  ASSUME IInv, NEW c \in Conns, Subscribe(c)
  PROVE  IInv'
<1> USE NoneAssumption DEF IInv, Subscribe, psVars, flagVars, workVars, connVars
<1>1. TypeOK'
  BY DEF TypeOK
<1>2. Started'
  BY DEF Started, TypeOK
<1>3. Generations'
  BY DEF Generations, TypeOK
<1>4. Closing'
  BY DEF Closing, TypeOK
<1>5. RegisteredIsCurrent'
  BY DEF RegisteredIsCurrent, TypeOK
<1>6. NoOrphanSubscriber'
  BY DEF NoOrphanSubscriber, TypeOK, BeingClosed
<1>7. Membership' /\ LockHeld' /\ JoinedRoomIsSubscribed'
  BY DEF Membership, LockHeld, JoinedRoomIsSubscribed
<1> QED
  BY <1>1, <1>2, <1>3, <1>4, <1>5, <1>6, <1>7

\* Generations are distinct, so a registered PubSub of this generation would be c's own.
LEMMA RegisterIInv ==
  ASSUME IInv, NEW c \in Conns, Register(c)
  PROVE  IInv'
<1> USE NoneAssumption DEF IInv, Register, psVars, flagVars, workVars, connVars
<1>1. TypeOK'
  BY DEF TypeOK
<1>2. Started'
  BY DEF Started, TypeOK
<1>3. Generations'
  BY DEF Generations, TypeOK
<1>4. Closing'
  BY DEF Closing, TypeOK
<1>5. RegisteredIsCurrent'
  BY DEF RegisteredIsCurrent, TypeOK, Current, Closing
<1>6. NoOrphanSubscriber'
  BY DEF NoOrphanSubscriber, TypeOK, BeingClosed, RegisteredIsCurrent, Generations, Current
<1>7. Membership' /\ LockHeld' /\ JoinedRoomIsSubscribed'
  BY DEF Membership, LockHeld, JoinedRoomIsSubscribed
<1> QED
  BY <1>1, <1>2, <1>3, <1>4, <1>5, <1>6, <1>7

\* A PubSub that was never registered is closed by its own goroutine.
LEMMA GiveUpIInv ==
  ASSUME IInv, NEW c \in Conns, GiveUp(c)
  PROVE  IInv'
<1> USE NoneAssumption DEF IInv, GiveUp, psVars, flagVars, workVars, connVars
<1>1. TypeOK'
  BY DEF TypeOK
<1>2. Started'
  BY DEF Started, TypeOK
<1>3. Generations'
  BY DEF Generations, TypeOK
<1>4. Closing'
  BY DEF Closing, TypeOK
<1>5. RegisteredIsCurrent'
  BY DEF RegisteredIsCurrent, TypeOK
<1>6. NoOrphanSubscriber'
  BY DEF NoOrphanSubscriber, TypeOK, BeingClosed
<1>7. Membership' /\ LockHeld' /\ JoinedRoomIsSubscribed'
  BY DEF Membership, LockHeld, JoinedRoomIsSubscribed
<1> QED
  BY <1>1, <1>2, <1>3, <1>4, <1>5, <1>6, <1>7

\* RegisteredIsCurrent: a closed PubSub is not registered, so the clean-up clears nothing.
LEMMA FinishIInv ==
  ASSUME IInv, NEW c \in Conns, Finish(c)
  PROVE  IInv'
<1> USE NoneAssumption DEF IInv, Finish, psVars, flagVars, workVars, connVars
<1>0. roomSubs[url[c]] # c /\ UNCHANGED <<roomSubs, subscriptions, subGens>>
  BY DEF TypeOK, RegisteredIsCurrent
<1>1. TypeOK'
  BY <1>0 DEF TypeOK
<1>2. Started'
  BY <1>0 DEF Started, TypeOK
<1>3. Generations'
  BY <1>0 DEF Generations, TypeOK
<1>4. Closing'
  BY <1>0 DEF Closing, TypeOK
<1>5. RegisteredIsCurrent'
  BY <1>0 DEF RegisteredIsCurrent, TypeOK
<1>6. NoOrphanSubscriber'
  BY <1>0 DEF NoOrphanSubscriber, TypeOK, BeingClosed
<1>7. Membership' /\ LockHeld' /\ JoinedRoomIsSubscribed'
  BY <1>0 DEF Membership, LockHeld, JoinedRoomIsSubscribed
<1> QED
  BY <1>1, <1>2, <1>3, <1>4, <1>5, <1>6, <1>7

\* Only the phase changes.
LEMMA BeginShutdownIInv ==
  ASSUME IInv, BeginShutdown
  PROVE  IInv'
<1> USE NoneAssumption DEF IInv, BeginShutdown, psVars, flagVars, workVars, connVars
<1>1. TypeOK'
  BY DEF TypeOK
<1>2. /\ Membership'
     /\ LockHeld'
     /\ Started'
     /\ Generations'
     /\ Closing'
     /\ RegisteredIsCurrent'
     /\ JoinedRoomIsSubscribed'
     /\ NoOrphanSubscriber'
  BY DEF Membership, LockHeld, Started, Generations, Closing,
     RegisteredIsCurrent, JoinedRoomIsSubscribed, NoOrphanSubscriber,
     BeingClosed
<1> QED
  BY <1>1, <1>2

\* Every registered PubSub is closed and forgotten at once.
LEMMA CloseRoomSubsIInv ==
  ASSUME IInv, CloseRoomSubs
  PROVE  IInv'
<1> USE NoneAssumption DEF IInv, CloseRoomSubs, psVars, flagVars, workVars, connVars
<1>1. TypeOK'
  BY DEF TypeOK
<1>2. Closing'
  BY DEF Closing, TypeOK, RegisteredIsCurrent
<1>3. RegisteredIsCurrent'
  BY DEF RegisteredIsCurrent, TypeOK
<1>4. NoOrphanSubscriber'
  BY DEF NoOrphanSubscriber, TypeOK, BeingClosed
<1>5. /\ Membership'
     /\ LockHeld'
     /\ Started'
     /\ Generations'
     /\ JoinedRoomIsSubscribed'
  BY DEF Membership, LockHeld, Started, Generations,
     JoinedRoomIsSubscribed
<1> QED
  BY <1>1, <1>2, <1>3, <1>4, <1>5

-----------------------------------------------------------------------------
\* Every step keeps the invariant.
LEMMA NextIInv == IInv /\ [Next]_vars => IInv'
<1> SUFFICES ASSUME IInv, [Next]_vars PROVE IInv'
  OBVIOUS
<1>1. ASSUME NEW c \in Conns, Handle(c) PROVE IInv'
  BY <1>1, AcceptIInv, JoinIInv, StartPumpsIInv, KeepSubscriptionIInv,
     StartSubscriptionIInv DEF Handle
<1>2. ASSUME NEW c \in Conns, Leave(c) PROVE IInv'
  BY <1>2, LeaveIInv
<1>3. ASSUME NEW c \in Conns, TearDown(c) PROVE IInv'
  BY <1>3, StopNotNeededIInv, StopCheckIInv, StopClearIInv, StopCloseIInv
     DEF TearDown
<1>4. ASSUME NEW c \in Conns, RunSubscription(c) PROVE IInv'
  BY <1>4, SubscribeIInv, RegisterIInv, GiveUpIInv, FinishIInv
     DEF RunSubscription
<1>5. CASE Shutdown
  BY <1>5, BeginShutdownIInv, CloseRoomSubsIInv DEF Shutdown
<1>6. CASE UNCHANGED vars
  BY <1>6 DEF vars, IInv, TypeOK, Membership, LockHeld, Started, Generations,
     Closing, RegisteredIsCurrent, JoinedRoomIsSubscribed, NoOrphanSubscriber,
     BeingClosed
<1> QED
  BY <1>1, <1>2, <1>3, <1>4, <1>5, <1>6 DEF Next

\* The inductive invariant holds in every reachable state.
THEOREM InductiveInvariant == Spec => []IInv
<1> QED
  BY InitIInv, NextIInv, PTL DEF Spec

\* The tables of the chat server keep their types.
THEOREM TypeCorrect == Spec => []TypeOK
<1>1. IInv => TypeOK
  BY DEF IInv
<1> QED
  BY <1>1, InductiveInvariant, PTL

\* No subscriber survives, unregistered and with nobody left to close it
\* (the generation check of runSubscription, the take-out of
\* stopSubscriptionIfEmpty), however many joins, leaves and restarts overlap.
THEOREM NoOrphans == Spec => []NoOrphanSubscriber
<1>1. IInv => NoOrphanSubscriber
  BY DEF IInv
<1> QED
  BY <1>1, InductiveInvariant, PTL

\* stopSubscriptionIfEmpty never switches off the subscription of a room with a
\* client whose handler has returned.
THEOREM JoinedStaysSubscribed == Spec => []JoinedRoomIsSubscribed
<1>1. IInv => JoinedRoomIsSubscribed
  BY DEF IInv
<1> QED
  BY <1>1, InductiveInvariant, PTL

\* The PubSub in roomSubs is open and is the one the room's flag stands for.
THEOREM RegisteredStaysCurrent == Spec => []RegisteredIsCurrent
<1>1. IInv => RegisteredIsCurrent
  BY DEF IInv
<1> QED
  BY <1>1, InductiveInvariant, PTL

-----------------------------------------------------------------------------
(* Refinement of RoomFeed.                                                 *)

\* Registering attaches a feed to a room that has none: by the generation check
\* a registered PubSub of the same generation would be c's own, and c is not
\* serving yet.
LEMMA RegisterAttaches ==
  ASSUME IInv, NEW c \in Conns, Register(c)
  PROVE  Feed!Attach(url[c], c)
<1> USE NoneAssumption DEF IInv, TypeOK, Register, Current
<1>1. roomSubs[url[c]] = None
  BY DEF RegisteredIsCurrent, Generations
<1>2. {d \in Conns : worker'[d] \in {"serving", "ended"}}
        = {d \in Conns : worker[d] \in {"serving", "ended"}} \cup {c}
  OBVIOUS
<1> QED
  BY <1>1, <1>2 DEF Feed!Attach

\* Steps that leave roomSubs and the set of once-registered PubSubs alone.
LEMMA OtherStepsStutter ==
  ASSUME IInv, NEW c \in Conns,
         Handle(c) \/ Leave(c) \/ StopNotNeeded(c) \/ StopCheck(c)
           \/ StopClose(c) \/ Subscribe(c) \/ GiveUp(c) \/ Finish(c)
  PROVE  UNCHANGED Feed!vars
<1> USE DEF IInv, TypeOK, psVars, workVars
<1>1. CASE Handle(c)
  BY <1>1 DEF Handle, Accept, Join, StartPumps, KeepSubscription,
     StartSubscription, Started, Feed!vars
<1>2. CASE Leave(c) \/ StopNotNeeded(c) \/ StopCheck(c) \/ StopClose(c)
  BY <1>2 DEF Leave, StopNotNeeded, StopCheck, StopClose, Feed!vars
<1>3. CASE Subscribe(c) \/ GiveUp(c)
  BY <1>3 DEF Subscribe, GiveUp, Feed!vars
<1>4. CASE Finish(c)
  BY <1>4 DEF Finish, RegisteredIsCurrent, Feed!vars
<1> QED
  BY <1>1, <1>2, <1>3, <1>4

\* The server's handling of a room's subscription implements RoomFeed.
THEOREM RefinesRoomFeed == Spec => ImplementsRoomFeed
<1>1. Init => Feed!Init
  BY DEF Init, Feed!Init
<1>2. IInv /\ [Next]_vars => [Feed!Next]_(Feed!vars)
  <2> SUFFICES ASSUME IInv, [Next]_vars
               PROVE  Feed!Next \/ UNCHANGED Feed!vars
    OBVIOUS
  <2> USE DEF IInv, TypeOK
  <2>1. ASSUME NEW c \in Conns, Register(c) PROVE Feed!Next
    BY <2>1, RegisterAttaches DEF Feed!Next
  <2>2. ASSUME NEW c \in Conns, StopClear(c) PROVE Feed!Next
    <3>1. Feed!Detach({url[c]})
      BY <2>2 DEF StopClear, workVars, Feed!Detach
    <3> QED
      BY <3>1 DEF Feed!Next
  <2>3. CASE CloseRoomSubs
    <3>1. Feed!Detach(Rooms)
      BY <2>3 DEF CloseRoomSubs, workVars, Feed!Detach
    <3> QED
      BY <3>1 DEF Feed!Next
  <2>4. CASE BeginShutdown \/ UNCHANGED vars
    BY <2>4 DEF BeginShutdown, vars, psVars, workVars, Feed!vars
  <2> QED
    BY <2>1, <2>2, <2>3, <2>4, OtherStepsStutter
       DEF Next, Handle, TearDown, RunSubscription, Shutdown
<1> QED
  BY <1>1, <1>2, InductiveInvariant, PTL DEF Spec, Feed!Spec, ImplementsRoomFeed
=============================================================================
