---------------------------- MODULE Social_proofs ----------------------------
(***************************************************************************)
(* The invariants of Social hold for any names and any number of calls in  *)
(* flight: SocialInv is inductive, one lemma per action.                   *)
(***************************************************************************)
EXTENDS Social, TLAPS

\* A call that is marked as raced is the same call.
LEMMA RacedIsCall ==
  ASSUME NEW c \in Calls
  PROVE  LET d == [c EXCEPT !.raced = TRUE]
         IN  d \in Calls /\ d.at = c.at /\ d.by = c.by /\ d.to = c.to
  BY DEF Calls, Steps

\* A new account takes nothing away.
LEMMA RegisterKeeps ==
  ASSUME SocialInv, NEW n \in Names, Register(n)
  PROVE  SocialInv'
<1> USE SocialAssumption
        DEF SocialInv, SocialTypeOK, Steps, Calls, Idle, nameVars, friendVars, dmVars
<1> USE DEF Register, Counted
<1>1. SocialTypeOK'
  OBVIOUS
<1>2. OrphansAreRenamed'
  BY DEF OrphansAreRenamed, PendingPairs, InFlight, Sound
<1>3. EmptyRenameIsRaced'
  BY DEF EmptyRenameIsRaced
<1>4. LeftoverIsCrossed'
  BY DEF LeftoverIsCrossed, PendingPairs, InFlight, Sound, Waiting
<1>5. RemovedStaysRemoved'
  BY DEF RemovedStaysRemoved, Waiting
<1>6. DMListedForBoth'
  BY DEF DMListedForBoth, InFlight, Sound
<1>7. InFlight'
  BY DEF InFlight, Sound, OrphansAreRenamed, ListsKnown, PendingPairs
<1>8. Waiting'
  BY DEF Waiting, RemovedStaysRemoved, PendingPairs
<1>9. ListsKnown'
  BY DEF ListsKnown, InFlight, Sound, OrphansAreRenamed
<1> QED  BY <1>1, <1>2, <1>3, <1>4, <1>5, <1>6, <1>7, <1>8, <1>9

\* A token for an account that exists.
LEMMA LoginKeeps ==
  ASSUME SocialInv, NEW n \in Names, Login(n)
  PROVE  SocialInv'
<1> USE SocialAssumption
        DEF SocialInv, SocialTypeOK, Steps, Calls, Idle, nameVars, friendVars, dmVars
<1> USE DEF Login, Counted
<1>1. SocialTypeOK'
  OBVIOUS
<1>2. OrphansAreRenamed'
  BY DEF OrphansAreRenamed, PendingPairs, InFlight, Sound
<1>3. EmptyRenameIsRaced'
  BY DEF EmptyRenameIsRaced
<1>4. LeftoverIsCrossed'
  BY DEF LeftoverIsCrossed, PendingPairs, InFlight, Sound, Waiting
<1>5. RemovedStaysRemoved'
  BY DEF RemovedStaysRemoved, Waiting
<1>6. DMListedForBoth'
  BY DEF DMListedForBoth, InFlight, Sound
<1>7. InFlight'
  BY DEF InFlight, Sound, OrphansAreRenamed, ListsKnown, PendingPairs
<1>8. Waiting'
  BY DEF Waiting, RemovedStaysRemoved, PendingPairs
<1>9. ListsKnown'
  BY DEF ListsKnown, InFlight, Sound, OrphansAreRenamed
<1> QED  BY <1>1, <1>2, <1>3, <1>4, <1>5, <1>6, <1>7, <1>8, <1>9

\* Who is past the check for friendship is a call.
LEMMA UncheckedIsCall ==
  ASSUME SocialInv, NEW a, NEW b, NEW t \in Unchecked(a, b)
  PROVE  call[t] \in Calls
<1>1. call[t] \in Calls \cup {Idle} /\ call[t].at # "idle"
  BY DEF SocialInv, SocialTypeOK, Unchecked
<1> QED  BY <1>1 DEF Idle

\* The acceptance takes the request, and marks the requests that are past their check as raced.
LEMMA AcceptKeeps ==
  ASSUME SocialInv, NEW a \in Names, NEW b \in Names, Accept(a, b)
  PROVE  SocialInv'
<1> USE SocialAssumption
        DEF SocialInv, SocialTypeOK, Steps, Calls, Idle, nameVars, friendVars, dmVars
<1> USE DEF Accept, Counted, Unchecked, PendingPairs
<1>1. SocialTypeOK'
  <2>1. ASSUME NEW t \in Slots
        PROVE  /\ call'[t] \in Calls \cup {Idle} /\ call'[t].at = call[t].at
               /\ call[t] \in Calls => call'[t].by = call[t].by /\ call'[t].to = call[t].to
    <3>1. CASE t \in Unchecked(a, b)
      <4>1. call[t] \in Calls /\ call'[t] = [call[t] EXCEPT !.raced = TRUE]
        <5>1. call'[t] = [call[t] EXCEPT !.raced = TRUE]
          BY <3>1
        <5> QED  BY <3>1, <5>1, UncheckedIsCall
      <4> QED  BY <4>1, RacedIsCall
    <3>2. CASE t \notin Unchecked(a, b)
      <4>1. call'[t] = call[t] /\ call[t] \in Calls \cup {Idle}
        BY <3>2
      <4> QED  BY <4>1
    <3> QED  BY <3>1, <3>2
  <2>2. call' \in [Slots -> Calls \cup {Idle}]
    <3>1. call' = [t \in Slots |-> call'[t]]
      OBVIOUS
    <3> HIDE DEF Accept, Calls, Idle, Unchecked
    <3> QED  BY <2>1, <3>1
  <2>3. \A t \in Slots : call'[t].at \in Steps \ {"select", "srem"} => call'[t].by # call'[t].to
    BY <2>1
  <2>4. a \in Names /\ b \in Names /\ a # b /\ friends' = friends \cup {{a, b}}
    OBVIOUS
  <2>5. \A p \in friends' : \E x, y \in Names : x # y /\ p = {x, y}
    BY <2>4
  <2>6. crossed' \subseteq crossed /\ removed' = removed /\ started' = started
    OBVIOUS
  <2>7. \A p \in friends' \cup crossed' \cup removed' \cup started' :
          \E x, y \in Names : x # y /\ p = {x, y}
    BY <2>5, <2>6
  <2>8. /\ requests' \subseteq requests /\ dms' = dms /\ accounts' = accounts
        /\ tokens' = tokens /\ loose' = loose /\ calls' \in 0..MaxCalls /\ faults' = faults
    OBVIOUS
  <2> HIDE DEF Accept, Calls, Idle, Unchecked, PendingPairs, Counted
  <2> QED  BY <2>2, <2>3, <2>7, <2>8
<1>2. OrphansAreRenamed'
  BY DEF OrphansAreRenamed, InFlight, Sound
<1>3. EmptyRenameIsRaced'
  BY DEF EmptyRenameIsRaced
<1>4. LeftoverIsCrossed'
  BY DEF LeftoverIsCrossed, InFlight, Sound, Waiting
<1>5. RemovedStaysRemoved'
  BY DEF RemovedStaysRemoved, Waiting
<1>6. DMListedForBoth'
  BY DEF DMListedForBoth, InFlight, Sound
<1>7. InFlight'
  <2> SUFFICES ASSUME NEW t \in Slots PROVE Sound(t)'
    BY DEF InFlight
  <2>1. Sound(t)
    BY DEF InFlight
  <2>2. CASE t \in Unchecked(a, b)
    <3>1. call[t] \in Calls /\ call'[t] = [call[t] EXCEPT !.raced = TRUE]
      <4>1. call'[t] = [call[t] EXCEPT !.raced = TRUE]
        BY <2>2
      <4> QED  BY <2>2, <4>1, UncheckedIsCall
    <3>2. /\ call'[t].at = call[t].at /\ call'[t].by = call[t].by /\ call'[t].to = call[t].to
          /\ call'[t].rows = call[t].rows /\ call'[t].raced = TRUE
      BY <3>1
    <3> QED  BY <2>1, <3>2 DEF Sound
  <2>3. CASE t \notin Unchecked(a, b)
    <3>1. call'[t] = call[t]
      BY <2>3
    <3>2. call[t].at \in {"alreadySent", "insert"} => {call[t].by, call[t].to} # {a, b}
      BY <2>3
    <3> QED  BY <2>1, <3>1, <3>2 DEF Sound
  <2> QED  BY <2>2, <2>3
<1>8. Waiting'
  BY DEF Waiting, RemovedStaysRemoved
<1>9. ListsKnown'
  BY DEF ListsKnown, InFlight, Sound, OrphansAreRenamed
<1> QED  BY <1>1, <1>2, <1>3, <1>4, <1>5, <1>6, <1>7, <1>8, <1>9

\* A declined request leaves no friendship behind.
LEMMA DeclineKeeps ==
  ASSUME SocialInv, NEW a \in Names, NEW b \in Names, Decline(a, b)
  PROVE  SocialInv'
<1> USE SocialAssumption
        DEF SocialInv, SocialTypeOK, Steps, Calls, Idle, nameVars, friendVars, dmVars
<1> USE DEF Decline, Counted, PendingPairs
<1>1. SocialTypeOK'
  OBVIOUS
<1>2. OrphansAreRenamed'
  BY DEF OrphansAreRenamed, InFlight, Sound
<1>3. EmptyRenameIsRaced'
  BY DEF EmptyRenameIsRaced
<1>4. LeftoverIsCrossed'
  BY DEF LeftoverIsCrossed, InFlight, Sound, Waiting
<1>5. RemovedStaysRemoved'
  BY DEF RemovedStaysRemoved, Waiting
<1>6. DMListedForBoth'
  BY DEF DMListedForBoth, InFlight, Sound
<1>7. InFlight'
  BY DEF InFlight, Sound, OrphansAreRenamed, ListsKnown
<1>8. Waiting'
  BY DEF Waiting, RemovedStaysRemoved
<1>9. ListsKnown'
  BY DEF ListsKnown, InFlight, Sound, OrphansAreRenamed
<1> QED  BY <1>1, <1>2, <1>3, <1>4, <1>5, <1>6, <1>7, <1>8, <1>9

\* A removal with nothing pending puts the pair in removed; with something pending it does not.
LEMMA RemoveFriendKeeps ==
  ASSUME SocialInv, NEW a \in Names, NEW b \in Names, RemoveFriend(a, b)
  PROVE  SocialInv'
<1> USE SocialAssumption
        DEF SocialInv, SocialTypeOK, Steps, Calls, Idle, nameVars, friendVars, dmVars
<1> USE DEF RemoveFriend, Counted, PendingPairs
<1>1. SocialTypeOK'
  <2>1. /\ friends' \subseteq friends /\ removed' \subseteq removed \cup friends
        /\ crossed' = crossed /\ started' = started
    OBVIOUS
  <2>2. \A p \in friends' \cup crossed' \cup removed' \cup started' :
          \E x, y \in Names : x # y /\ p = {x, y}
    BY <2>1
  <2>3. /\ call' = call /\ requests' = requests /\ dms' = dms /\ accounts' = accounts
        /\ tokens' = tokens /\ loose' = loose /\ calls' \in 0..MaxCalls /\ faults' = faults
    OBVIOUS
  <2> HIDE DEF RemoveFriend, Calls, Idle, PendingPairs, Counted
  <2> QED  BY <2>2, <2>3
<1>2. OrphansAreRenamed'
  BY DEF OrphansAreRenamed, InFlight, Sound
<1>3. EmptyRenameIsRaced'
  BY DEF EmptyRenameIsRaced
<1>4. LeftoverIsCrossed'
  BY DEF LeftoverIsCrossed, InFlight, Sound, Waiting
<1>5. RemovedStaysRemoved'
  BY DEF RemovedStaysRemoved, Waiting
<1>6. DMListedForBoth'
  BY DEF DMListedForBoth, InFlight, Sound
<1>7. InFlight'
  BY DEF InFlight, Sound, OrphansAreRenamed, ListsKnown
<1>8. Waiting'
  BY DEF Waiting, RemovedStaysRemoved
<1>9. ListsKnown'
  BY DEF ListsKnown, InFlight, Sound, OrphansAreRenamed
<1> QED  BY <1>1, <1>2, <1>3, <1>4, <1>5, <1>6, <1>7, <1>8, <1>9

\* A rename in flight has found its account.
LEMMA RenameKeeps ==
  ASSUME SocialInv, NEW s \in Slots, NEW a \in Names, NEW b \in Names, Rename(s, a, b)
  PROVE  SocialInv'
<1> USE SocialAssumption
        DEF SocialInv, SocialTypeOK, Steps, Calls, Idle, nameVars, friendVars, dmVars
<1> USE DEF Rename, Opens, Counted, Calling
<1>1. SocialTypeOK'
  OBVIOUS
<1>2. OrphansAreRenamed'
  BY DEF OrphansAreRenamed, PendingPairs, InFlight, Sound
<1>3. EmptyRenameIsRaced'
  BY DEF EmptyRenameIsRaced
<1>4. LeftoverIsCrossed'
  BY DEF LeftoverIsCrossed, PendingPairs, InFlight, Sound, Waiting
<1>5. RemovedStaysRemoved'
  BY DEF RemovedStaysRemoved, Waiting
<1>6. DMListedForBoth'
  BY DEF DMListedForBoth, InFlight, Sound
<1>7. InFlight'
  BY DEF InFlight, Sound, OrphansAreRenamed, ListsKnown, PendingPairs
<1>8. Waiting'
  BY DEF Waiting, RemovedStaysRemoved, PendingPairs
<1>9. ListsKnown'
  BY DEF ListsKnown, InFlight, Sound, OrphansAreRenamed
<1> QED  BY <1>1, <1>2, <1>3, <1>4, <1>5, <1>6, <1>7, <1>8, <1>9

\* A request in flight has found its target.
LEMMA SendRequestKeeps ==
  ASSUME SocialInv, NEW s \in Slots, NEW a \in Names, NEW b \in Names, SendRequest(s, a, b)
  PROVE  SocialInv'
<1> USE SocialAssumption
        DEF SocialInv, SocialTypeOK, Steps, Calls, Idle, nameVars, friendVars, dmVars
<1> USE DEF SendRequest, Opens, Counted, Calling
<1>1. SocialTypeOK'
  OBVIOUS
<1>2. OrphansAreRenamed'
  BY DEF OrphansAreRenamed, PendingPairs, InFlight, Sound
<1>3. EmptyRenameIsRaced'
  BY DEF EmptyRenameIsRaced
<1>4. LeftoverIsCrossed'
  BY DEF LeftoverIsCrossed, PendingPairs, InFlight, Sound, Waiting
<1>5. RemovedStaysRemoved'
  BY DEF RemovedStaysRemoved, Waiting
<1>6. DMListedForBoth'
  BY DEF DMListedForBoth, InFlight, Sound
<1>7. InFlight'
  BY DEF InFlight, Sound, OrphansAreRenamed, ListsKnown, PendingPairs
<1>8. Waiting'
  BY DEF Waiting, RemovedStaysRemoved, PendingPairs
<1>9. ListsKnown'
  BY DEF ListsKnown, InFlight, Sound, OrphansAreRenamed
<1> QED  BY <1>1, <1>2, <1>3, <1>4, <1>5, <1>6, <1>7, <1>8, <1>9

\* A DM in flight has found its target.
LEMMA StartDMKeeps ==
  ASSUME SocialInv, NEW s \in Slots, NEW a \in Names, NEW b \in Names, StartDM(s, a, b)
  PROVE  SocialInv'
<1> USE SocialAssumption
        DEF SocialInv, SocialTypeOK, Steps, Calls, Idle, nameVars, friendVars, dmVars
<1> USE DEF StartDM, Opens, Counted, Calling
<1>1. SocialTypeOK'
  OBVIOUS
<1>2. OrphansAreRenamed'
  BY DEF OrphansAreRenamed, PendingPairs, InFlight, Sound
<1>3. EmptyRenameIsRaced'
  BY DEF EmptyRenameIsRaced
<1>4. LeftoverIsCrossed'
  BY DEF LeftoverIsCrossed, PendingPairs, InFlight, Sound, Waiting
<1>5. RemovedStaysRemoved'
  BY DEF RemovedStaysRemoved, Waiting
<1>6. DMListedForBoth'
  BY DEF DMListedForBoth, InFlight, Sound
<1>7. InFlight'
  BY DEF InFlight, Sound, OrphansAreRenamed, ListsKnown, PendingPairs
<1>8. Waiting'
  BY DEF Waiting, RemovedStaysRemoved, PendingPairs
<1>9. ListsKnown'
  BY DEF ListsKnown, InFlight, Sound, OrphansAreRenamed
<1> QED  BY <1>1, <1>2, <1>3, <1>4, <1>5, <1>6, <1>7, <1>8, <1>9

\* The partners that are read are accounts or names given up.
LEMMA GetDMListKeeps ==
  ASSUME SocialInv, NEW s \in Slots, NEW a \in Names, GetDMList(s, a)
  PROVE  SocialInv'
<1> USE SocialAssumption
        DEF SocialInv, SocialTypeOK, Steps, Calls, Idle, nameVars, friendVars, dmVars
<1> USE DEF GetDMList, Opens, Counted, Calling
<1>1. SocialTypeOK'
  OBVIOUS
<1>2. OrphansAreRenamed'
  BY DEF OrphansAreRenamed, PendingPairs, InFlight, Sound
<1>3. EmptyRenameIsRaced'
  BY DEF EmptyRenameIsRaced
<1>4. LeftoverIsCrossed'
  BY DEF LeftoverIsCrossed, PendingPairs, InFlight, Sound, Waiting
<1>5. RemovedStaysRemoved'
  BY DEF RemovedStaysRemoved, Waiting
<1>6. DMListedForBoth'
  BY DEF DMListedForBoth, InFlight, Sound
<1>7. InFlight'
  BY DEF InFlight, Sound, OrphansAreRenamed, ListsKnown, PendingPairs
<1>8. Waiting'
  BY DEF Waiting, RemovedStaysRemoved, PendingPairs
<1>9. ListsKnown'
  BY DEF ListsKnown, InFlight, Sound, OrphansAreRenamed
<1> QED  BY <1>1, <1>2, <1>3, <1>4, <1>5, <1>6, <1>7, <1>8, <1>9

\* The old name is loose from now on; the other renames of it are raced.
LEMMA RowRenamedKeeps ==
  ASSUME SocialInv, NEW s \in Slots, NEW a \in Names, NEW b \in Names, RowRenamed(s, a, b),
         tokens' \in {tokens, tokens \cup {b}}, faults' \in 0..MaxFaults
  PROVE  SocialInv'
<1> USE SocialAssumption
        DEF SocialInv, SocialTypeOK, Steps, Calls, Idle, nameVars, friendVars, dmVars
<1> USE DEF RowRenamed, Overtaken, RenamesOf
<1>1. SocialTypeOK'
  <2>1. \A t \in Slots :
          \/ t = s /\ call'[t] = Idle
          \/ t # s /\ call'[t] = call[t]
          \/ t # s /\ call[t] \in Calls /\ call'[t] = [call[t] EXCEPT !.raced = TRUE]
    OBVIOUS
  <2>2. \A t \in Slots : call'[t] \in Calls \cup {Idle}
    BY <2>1, RacedIsCall
  <2>3. call' \in [Slots -> Calls \cup {Idle}]
    <3>1. call' = [t \in Slots |-> call'[t]]
      OBVIOUS
    <3> HIDE DEF RowRenamed, Calls, Idle, Overtaken
    <3> QED  BY <2>2, <3>1
  <2>4. \A t \in Slots : call'[t].at \in Steps \ {"select", "srem"} => call'[t].by # call'[t].to
    BY <2>1
  <2>5. a \in Names /\ b \in Names
    OBVIOUS
  <2> QED  BY <2>3, <2>4, <2>5
<1>2. OrphansAreRenamed'
  BY DEF OrphansAreRenamed, PendingPairs, InFlight, Sound
<1>3. EmptyRenameIsRaced'
  BY DEF EmptyRenameIsRaced
<1>4. LeftoverIsCrossed'
  BY DEF LeftoverIsCrossed, PendingPairs, InFlight, Sound, Waiting
<1>5. RemovedStaysRemoved'
  BY DEF RemovedStaysRemoved, Waiting
<1>6. DMListedForBoth'
  BY DEF DMListedForBoth, InFlight, Sound
<1>7. InFlight'
  <2>1. \A t \in Slots :
          \/ t = s /\ call'[t] = Idle
          \/ t # s /\ call'[t] = call[t]
          \/ t # s /\ call[t] \in Calls /\ call'[t] = [call[t] EXCEPT !.raced = TRUE]
    OBVIOUS
  <2>2. accounts \cup loose \subseteq accounts' \cup loose' /\ loose \subseteq loose'
    OBVIOUS
  <2> SUFFICES ASSUME NEW t \in Slots, t # s PROVE Sound(t)'
    BY <2>1 DEF InFlight, Sound
  <2>3. Sound(t)
    BY DEF InFlight
  <2>4. CASE call'[t] = call[t]
    BY <2>2, <2>3, <2>4 DEF Sound
  <2>5. CASE call[t] \in Calls /\ call'[t] = [call[t] EXCEPT !.raced = TRUE]
    <3>1. /\ call'[t].at = call[t].at /\ call'[t].by = call[t].by /\ call'[t].to = call[t].to
          /\ call'[t].rows = call[t].rows /\ call'[t].raced = TRUE
      BY <2>5
    <3> QED  BY <2>2, <2>3, <3>1 DEF Sound
  <2> QED  BY <2>1, <2>4, <2>5
<1>8. Waiting'
  BY DEF Waiting, RemovedStaysRemoved, PendingPairs
<1>9. ListsKnown'
  BY DEF ListsKnown, InFlight, Sound, OrphansAreRenamed
<1> QED  BY <1>1, <1>2, <1>3, <1>4, <1>5, <1>6, <1>7, <1>8, <1>9

\* A request that is inserted between friends was raced, and one across another is crossed.
LEMMA InsertRequestKeeps ==
  ASSUME SocialInv, NEW s \in Slots, NEW a \in Names, NEW b \in Names, InsertRequest(s, a, b)
  PROVE  SocialInv'
<1> USE SocialAssumption
        DEF SocialInv, SocialTypeOK, Steps, Calls, Idle, nameVars, friendVars, dmVars
<1> USE DEF InsertRequest, Ends, PendingPairs
<1>1. SocialTypeOK'
  OBVIOUS
<1>2. OrphansAreRenamed'
  BY DEF OrphansAreRenamed, InFlight, Sound
<1>3. EmptyRenameIsRaced'
  BY DEF EmptyRenameIsRaced
<1>4. LeftoverIsCrossed'
  BY DEF LeftoverIsCrossed, InFlight, Sound, Waiting
<1>5. RemovedStaysRemoved'
  BY DEF RemovedStaysRemoved, Waiting
<1>6. DMListedForBoth'
  BY DEF DMListedForBoth, InFlight, Sound
<1>7. InFlight'
  BY DEF InFlight, Sound, OrphansAreRenamed, ListsKnown
<1>8. Waiting'
  <2>1. <<b, a>> \in requests => {a, b} \in crossed'
    OBVIOUS
  <2>2. crossed \subseteq crossed' /\ removed' = removed \ {{a, b}}
    OBVIOUS
  <2>3. ASSUME NEW r \in requests', <<r[2], r[1]>> \in requests' PROVE {r[1], r[2]} \in crossed'
    <3>1. CASE r = <<a, b>>
      BY <2>1, <2>3, <3>1
    <3>2. CASE r \in requests /\ <<r[2], r[1]>> = <<a, b>>
      <4>1. r = <<b, a>> /\ {r[1], r[2]} = {a, b}
        BY <3>2
      <4> QED  BY <2>1, <3>2, <4>1
    <3>3. CASE r \in requests /\ <<r[2], r[1]>> \in requests
      BY <2>2, <3>3 DEF Waiting
    <3> QED  BY <2>3, <3>1, <3>2, <3>3
  <2>4. ASSUME NEW r \in requests' PROVE {r[1], r[2]} \notin removed'
    BY <2>2 DEF Waiting
  <2> QED  BY <2>3, <2>4 DEF Waiting
<1>9. ListsKnown'
  BY DEF ListsKnown, InFlight, Sound, OrphansAreRenamed
<1> QED  BY <1>1, <1>2, <1>3, <1>4, <1>5, <1>6, <1>7, <1>8, <1>9

\* A call that ends takes its promises with it.
LEMMA NameTakenKeeps ==
  ASSUME SocialInv, NEW s \in Slots, NameTaken(s)
  PROVE  SocialInv'
<1> USE SocialAssumption
        DEF SocialInv, SocialTypeOK, Steps, Calls, Idle, nameVars, friendVars, dmVars
<1> USE DEF NameTaken, Ends
<1>1. SocialTypeOK'
  OBVIOUS
<1>2. OrphansAreRenamed'
  BY DEF OrphansAreRenamed, PendingPairs, InFlight, Sound
<1>3. EmptyRenameIsRaced'
  BY DEF EmptyRenameIsRaced
<1>4. LeftoverIsCrossed'
  BY DEF LeftoverIsCrossed, PendingPairs, InFlight, Sound, Waiting
<1>5. RemovedStaysRemoved'
  BY DEF RemovedStaysRemoved, Waiting
<1>6. DMListedForBoth'
  BY DEF DMListedForBoth, InFlight, Sound
<1>7. InFlight'
  BY DEF InFlight, Sound, OrphansAreRenamed, ListsKnown, PendingPairs
<1>8. Waiting'
  BY DEF Waiting, RemovedStaysRemoved, PendingPairs
<1>9. ListsKnown'
  BY DEF ListsKnown, InFlight, Sound, OrphansAreRenamed
<1> QED  BY <1>1, <1>2, <1>3, <1>4, <1>5, <1>6, <1>7, <1>8, <1>9

\* The new name of a rename of nothing is loose.
LEMMA RenamedNothingKeeps ==
  ASSUME SocialInv, NEW s \in Slots, RenamedNothing(s)
  PROVE  SocialInv'
<1> USE SocialAssumption
        DEF SocialInv, SocialTypeOK, Steps, Calls, Idle, nameVars, friendVars, dmVars
<1> USE DEF RenamedNothing, Ends
<1>1. SocialTypeOK'
  OBVIOUS
<1>2. OrphansAreRenamed'
  BY DEF OrphansAreRenamed, PendingPairs, InFlight, Sound
<1>3. EmptyRenameIsRaced'
  BY DEF EmptyRenameIsRaced
<1>4. LeftoverIsCrossed'
  BY DEF LeftoverIsCrossed, PendingPairs, InFlight, Sound, Waiting
<1>5. RemovedStaysRemoved'
  BY DEF RemovedStaysRemoved, Waiting
<1>6. DMListedForBoth'
  BY DEF DMListedForBoth, InFlight, Sound
<1>7. InFlight'
  BY DEF InFlight, Sound, OrphansAreRenamed, ListsKnown, PendingPairs
<1>8. Waiting'
  BY DEF Waiting, RemovedStaysRemoved, PendingPairs
<1>9. ListsKnown'
  BY DEF ListsKnown, InFlight, Sound, OrphansAreRenamed
<1> QED  BY <1>1, <1>2, <1>3, <1>4, <1>5, <1>6, <1>7, <1>8, <1>9

\* A call that ends, or goes on, with nothing written.
LEMMA AreFriendsKeeps ==
  ASSUME SocialInv, NEW s \in Slots, AreFriends(s)
  PROVE  SocialInv'
<1> USE SocialAssumption
        DEF SocialInv, SocialTypeOK, Steps, Calls, Idle, nameVars, friendVars, dmVars
<1> USE DEF AreFriends, Ends
<1>1. SocialTypeOK'
  OBVIOUS
<1>2. OrphansAreRenamed'
  BY DEF OrphansAreRenamed, PendingPairs, InFlight, Sound
<1>3. EmptyRenameIsRaced'
  BY DEF EmptyRenameIsRaced
<1>4. LeftoverIsCrossed'
  BY DEF LeftoverIsCrossed, PendingPairs, InFlight, Sound, Waiting
<1>5. RemovedStaysRemoved'
  BY DEF RemovedStaysRemoved, Waiting
<1>6. DMListedForBoth'
  BY DEF DMListedForBoth, InFlight, Sound
<1>7. InFlight'
  BY DEF InFlight, Sound, OrphansAreRenamed, ListsKnown, PendingPairs
<1>8. Waiting'
  BY DEF Waiting, RemovedStaysRemoved, PendingPairs
<1>9. ListsKnown'
  BY DEF ListsKnown, InFlight, Sound, OrphansAreRenamed
<1> QED  BY <1>1, <1>2, <1>3, <1>4, <1>5, <1>6, <1>7, <1>8, <1>9

\* Past the check, the two are not friends.
LEMMA NotFriendsKeeps ==
  ASSUME SocialInv, NEW s \in Slots, NotFriends(s)
  PROVE  SocialInv'
<1> USE SocialAssumption
        DEF SocialInv, SocialTypeOK, Steps, Calls, Idle, nameVars, friendVars, dmVars
<1> USE DEF NotFriends, Moves
<1>1. SocialTypeOK'
  OBVIOUS
<1>2. OrphansAreRenamed'
  BY DEF OrphansAreRenamed, PendingPairs, InFlight, Sound
<1>3. EmptyRenameIsRaced'
  BY DEF EmptyRenameIsRaced
<1>4. LeftoverIsCrossed'
  BY DEF LeftoverIsCrossed, PendingPairs, InFlight, Sound, Waiting
<1>5. RemovedStaysRemoved'
  BY DEF RemovedStaysRemoved, Waiting
<1>6. DMListedForBoth'
  BY DEF DMListedForBoth, InFlight, Sound
<1>7. InFlight'
  <2>1. call[s] \in Calls
    OBVIOUS
  <2>2. /\ call'[s] = [call[s] EXCEPT !.at = "alreadySent"]
        /\ call'[s].by = call[s].by /\ call'[s].to = call[s].to
        /\ call'[s].raced = call[s].raced /\ call'[s].at = "alreadySent"
    BY <2>1
  <2>5. ASSUME NEW t \in Slots, t # s PROVE Sound(t)'
    BY <2>5 DEF InFlight, Sound, OrphansAreRenamed, ListsKnown, PendingPairs
  <2>6. Sound(s)'
    BY <2>1, <2>2 DEF InFlight, Sound
  <2> QED  BY <2>5, <2>6 DEF InFlight
<1>8. Waiting'
  BY DEF Waiting, RemovedStaysRemoved, PendingPairs
<1>9. ListsKnown'
  BY DEF ListsKnown, InFlight, Sound, OrphansAreRenamed
<1> QED  BY <1>1, <1>2, <1>3, <1>4, <1>5, <1>6, <1>7, <1>8, <1>9

\* A call that ends, or goes on, with nothing written.
LEMMA AlreadySentKeeps ==
  ASSUME SocialInv, NEW s \in Slots, AlreadySent(s)
  PROVE  SocialInv'
<1> USE SocialAssumption
        DEF SocialInv, SocialTypeOK, Steps, Calls, Idle, nameVars, friendVars, dmVars
<1> USE DEF AlreadySent, Ends
<1>1. SocialTypeOK'
  OBVIOUS
<1>2. OrphansAreRenamed'
  BY DEF OrphansAreRenamed, PendingPairs, InFlight, Sound
<1>3. EmptyRenameIsRaced'
  BY DEF EmptyRenameIsRaced
<1>4. LeftoverIsCrossed'
  BY DEF LeftoverIsCrossed, PendingPairs, InFlight, Sound, Waiting
<1>5. RemovedStaysRemoved'
  BY DEF RemovedStaysRemoved, Waiting
<1>6. DMListedForBoth'
  BY DEF DMListedForBoth, InFlight, Sound
<1>7. InFlight'
  BY DEF InFlight, Sound, OrphansAreRenamed, ListsKnown, PendingPairs
<1>8. Waiting'
  BY DEF Waiting, RemovedStaysRemoved, PendingPairs
<1>9. ListsKnown'
  BY DEF ListsKnown, InFlight, Sound, OrphansAreRenamed
<1> QED  BY <1>1, <1>2, <1>3, <1>4, <1>5, <1>6, <1>7, <1>8, <1>9

\* A call that ends, or goes on, with nothing written.
LEMMA NotSentKeeps ==
  ASSUME SocialInv, NEW s \in Slots, NotSent(s)
  PROVE  SocialInv'
<1> USE SocialAssumption
        DEF SocialInv, SocialTypeOK, Steps, Calls, Idle, nameVars, friendVars, dmVars
<1> USE DEF NotSent, Moves
<1>1. SocialTypeOK'
  OBVIOUS
<1>2. OrphansAreRenamed'
  BY DEF OrphansAreRenamed, PendingPairs, InFlight, Sound
<1>3. EmptyRenameIsRaced'
  BY DEF EmptyRenameIsRaced
<1>4. LeftoverIsCrossed'
  BY DEF LeftoverIsCrossed, PendingPairs, InFlight, Sound, Waiting
<1>5. RemovedStaysRemoved'
  BY DEF RemovedStaysRemoved, Waiting
<1>6. DMListedForBoth'
  BY DEF DMListedForBoth, InFlight, Sound
<1>7. InFlight'
  <2>1. call[s] \in Calls
    OBVIOUS
  <2>2. /\ call'[s] = [call[s] EXCEPT !.at = "insert"]
        /\ call'[s].by = call[s].by /\ call'[s].to = call[s].to
        /\ call'[s].raced = call[s].raced /\ call'[s].at = "insert"
    BY <2>1
  <2>5. ASSUME NEW t \in Slots, t # s PROVE Sound(t)'
    BY <2>5 DEF InFlight, Sound, OrphansAreRenamed, ListsKnown, PendingPairs
  <2>6. Sound(s)'
    BY <2>1, <2>2 DEF InFlight, Sound
  <2> QED  BY <2>5, <2>6 DEF InFlight
<1>8. Waiting'
  BY DEF Waiting, RemovedStaysRemoved, PendingPairs
<1>9. ListsKnown'
  BY DEF ListsKnown, InFlight, Sound, OrphansAreRenamed
<1> QED  BY <1>1, <1>2, <1>3, <1>4, <1>5, <1>6, <1>7, <1>8, <1>9

\* A check that fails counts as raced.
LEMMA CheckFailsKeeps ==
  ASSUME SocialInv, NEW s \in Slots, CheckFails(s)
  PROVE  SocialInv'
<1> USE SocialAssumption
        DEF SocialInv, SocialTypeOK, Steps, Calls, Idle, nameVars, friendVars, dmVars
<1> USE DEF CheckFails, Fault
<1>1. SocialTypeOK'
  <2>1. call[s] \in Calls
    OBVIOUS
  <2>2. /\ call'[s].by = call[s].by /\ call'[s].to = call[s].to /\ call'[s].rows = call[s].rows
        /\ call[s].at = "isFriend" => call'[s].at = "alreadySent" /\ call'[s].raced = TRUE
        /\ call[s].at = "alreadySent" => call'[s].at = "insert" /\ call'[s].raced = call[s].raced
    BY <2>1
  <2>3. call' \in [Slots -> Calls \cup {Idle}]
    BY <2>1, <2>2
  <2>4. \A t \in Slots : call'[t].at \in Steps \ {"select", "srem"} => call'[t].by # call'[t].to
    BY <2>1, <2>2
  <2> QED  BY <2>3, <2>4
<1>2. OrphansAreRenamed'
  BY DEF OrphansAreRenamed, PendingPairs, InFlight, Sound
<1>3. EmptyRenameIsRaced'
  BY DEF EmptyRenameIsRaced
<1>4. LeftoverIsCrossed'
  BY DEF LeftoverIsCrossed, PendingPairs, InFlight, Sound, Waiting
<1>5. RemovedStaysRemoved'
  BY DEF RemovedStaysRemoved, Waiting
<1>6. DMListedForBoth'
  BY DEF DMListedForBoth, InFlight, Sound
<1>7. InFlight'
  <2>1. call[s] \in Calls
    OBVIOUS
  <2>2. /\ call'[s].by = call[s].by /\ call'[s].to = call[s].to /\ call'[s].rows = call[s].rows
        /\ call[s].at = "isFriend" => call'[s].at = "alreadySent" /\ call'[s].raced = TRUE
        /\ call[s].at = "alreadySent" => call'[s].at = "insert" /\ call'[s].raced = call[s].raced
    BY <2>1
  <2>5. ASSUME NEW t \in Slots, t # s PROVE Sound(t)'
    BY <2>5 DEF InFlight, Sound, OrphansAreRenamed, ListsKnown, PendingPairs
  <2>6. Sound(s)'
    BY <2>1, <2>2 DEF InFlight, Sound
  <2> QED  BY <2>5, <2>6 DEF InFlight
<1>8. Waiting'
  BY DEF Waiting, RemovedStaysRemoved, PendingPairs
<1>9. ListsKnown'
  BY DEF ListsKnown, InFlight, Sound, OrphansAreRenamed
<1> QED  BY <1>1, <1>2, <1>3, <1>4, <1>5, <1>6, <1>7, <1>8, <1>9

\* A call that ends, or goes on, with nothing written.
LEMMA InsertRefusedKeeps ==
  ASSUME SocialInv, NEW s \in Slots, InsertRefused(s)
  PROVE  SocialInv'
<1> USE SocialAssumption
        DEF SocialInv, SocialTypeOK, Steps, Calls, Idle, nameVars, friendVars, dmVars
<1> USE DEF InsertRefused, Ends
<1>1. SocialTypeOK'
  OBVIOUS
<1>2. OrphansAreRenamed'
  BY DEF OrphansAreRenamed, PendingPairs, InFlight, Sound
<1>3. EmptyRenameIsRaced'
  BY DEF EmptyRenameIsRaced
<1>4. LeftoverIsCrossed'
  BY DEF LeftoverIsCrossed, PendingPairs, InFlight, Sound, Waiting
<1>5. RemovedStaysRemoved'
  BY DEF RemovedStaysRemoved, Waiting
<1>6. DMListedForBoth'
  BY DEF DMListedForBoth, InFlight, Sound
<1>7. InFlight'
  BY DEF InFlight, Sound, OrphansAreRenamed, ListsKnown, PendingPairs
<1>8. Waiting'
  BY DEF Waiting, RemovedStaysRemoved, PendingPairs
<1>9. ListsKnown'
  BY DEF ListsKnown, InFlight, Sound, OrphansAreRenamed
<1> QED  BY <1>1, <1>2, <1>3, <1>4, <1>5, <1>6, <1>7, <1>8, <1>9

\* A call that ends, or goes on, with nothing written.
LEMMA QueryFailsKeeps ==
  ASSUME SocialInv, NEW s \in Slots, QueryFails(s)
  PROVE  SocialInv'
<1> USE SocialAssumption
        DEF SocialInv, SocialTypeOK, Steps, Calls, Idle, nameVars, friendVars, dmVars
<1> USE DEF QueryFails, Fault
<1>1. SocialTypeOK'
  OBVIOUS
<1>2. OrphansAreRenamed'
  BY DEF OrphansAreRenamed, PendingPairs, InFlight, Sound
<1>3. EmptyRenameIsRaced'
  BY DEF EmptyRenameIsRaced
<1>4. LeftoverIsCrossed'
  BY DEF LeftoverIsCrossed, PendingPairs, InFlight, Sound, Waiting
<1>5. RemovedStaysRemoved'
  BY DEF RemovedStaysRemoved, Waiting
<1>6. DMListedForBoth'
  BY DEF DMListedForBoth, InFlight, Sound
<1>7. InFlight'
  BY DEF InFlight, Sound, OrphansAreRenamed, ListsKnown, PendingPairs
<1>8. Waiting'
  BY DEF Waiting, RemovedStaysRemoved, PendingPairs
<1>9. ListsKnown'
  BY DEF ListsKnown, InFlight, Sound, OrphansAreRenamed
<1> QED  BY <1>1, <1>2, <1>3, <1>4, <1>5, <1>6, <1>7, <1>8, <1>9

\* The first half of a DM is in the caller's list.
LEMMA AddToOwnKeeps ==
  ASSUME SocialInv, NEW s \in Slots, AddToOwn(s)
  PROVE  SocialInv'
<1> USE SocialAssumption
        DEF SocialInv, SocialTypeOK, Steps, Calls, Idle, nameVars, friendVars, dmVars
<1> USE DEF AddToOwn, Moves
<1>1. SocialTypeOK'
  OBVIOUS
<1>2. OrphansAreRenamed'
  BY DEF OrphansAreRenamed, PendingPairs, InFlight, Sound
<1>3. EmptyRenameIsRaced'
  BY DEF EmptyRenameIsRaced
<1>4. LeftoverIsCrossed'
  BY DEF LeftoverIsCrossed, PendingPairs, InFlight, Sound, Waiting
<1>5. RemovedStaysRemoved'
  BY DEF RemovedStaysRemoved, Waiting
<1>6. DMListedForBoth'
  BY DEF DMListedForBoth, InFlight, Sound
<1>7. InFlight'
  <2>1. call[s] \in Calls
    OBVIOUS
  <2>2. /\ call'[s].by = call[s].by /\ call'[s].to = call[s].to /\ call'[s].at = "saddOther"
        /\ call[s].to \in dms'[call[s].by]
        /\ \A n \in Names : dms[n] \subseteq dms'[n]
    BY <2>1
  <2>3. ASSUME NEW t \in Slots, t # s PROVE Sound(t)'
    <3>1. call'[t] = call[t] /\ Sound(t) /\ (call[t].at # "idle" => call[t].by \in Names)
      BY <2>3 DEF InFlight
    <3> QED  BY <2>2, <3>1 DEF Sound
  <2>4. Sound(s)'
    BY <2>1, <2>2 DEF InFlight, Sound
  <2> QED  BY <2>3, <2>4 DEF InFlight
<1>8. Waiting'
  BY DEF Waiting, RemovedStaysRemoved, PendingPairs
<1>9. ListsKnown'
  <2>1. call[s] \in Calls
    OBVIOUS
  <2>2. call[s].by \in Names /\ call[s].to \in accounts \cup loose
    BY <2>1 DEF InFlight, Sound
  <2>3. \A n \in Names : dms'[n] \subseteq dms[n] \cup {call[s].to}
    BY <2>1, <2>2
  <2>4. accounts' = accounts /\ loose' = loose
    OBVIOUS
  <2> QED  BY <2>2, <2>3, <2>4 DEF ListsKnown
<1> QED  BY <1>1, <1>2, <1>3, <1>4, <1>5, <1>6, <1>7, <1>8, <1>9

\* A DM answered as started has both halves.
LEMMA AddToOtherKeeps ==
  ASSUME SocialInv, NEW s \in Slots, AddToOther(s)
  PROVE  SocialInv'
<1> USE SocialAssumption
        DEF SocialInv, SocialTypeOK, Steps, Calls, Idle, nameVars, friendVars, dmVars
<1> USE DEF AddToOther, Ends
<1>1. SocialTypeOK'
  OBVIOUS
<1>2. OrphansAreRenamed'
  BY DEF OrphansAreRenamed, PendingPairs, InFlight, Sound
<1>3. EmptyRenameIsRaced'
  BY DEF EmptyRenameIsRaced
<1>4. LeftoverIsCrossed'
  BY DEF LeftoverIsCrossed, PendingPairs, InFlight, Sound, Waiting
<1>5. RemovedStaysRemoved'
  BY DEF RemovedStaysRemoved, Waiting
<1>6. DMListedForBoth'
  <2> DEFINE x == call[s].by
             y == call[s].to
  <2>1. x \in Names /\ y \in Names
    OBVIOUS
  <2>2. /\ \A n \in Names : dms[n] \subseteq dms'[n]
        /\ x \in dms'[y] /\ loose' = loose /\ started' = started \cup {{x, y}}
    BY <2>1
  <2>3. {x, y} \cap loose = {} => y \in dms'[x]
    BY <2>1, <2>2 DEF InFlight, Sound
  <2> SUFFICES ASSUME NEW a \in Names, NEW b \in Names, {a, b} \in started', {a, b} \cap loose = {}
               PROVE  b \in dms'[a] /\ a \in dms'[b]
    BY <2>2 DEF DMListedForBoth
  <2>4. CASE {a, b} \in started
    BY <2>2, <2>4 DEF DMListedForBoth
  <2>5. CASE {a, b} = {x, y}
    <3>1. (a = x /\ b = y) \/ (a = y /\ b = x)
      BY <2>5
    <3> QED  BY <2>2, <2>3, <2>5, <3>1
  <2> QED  BY <2>2, <2>4, <2>5
<1>7. InFlight'
  <2>1. call[s] \in Calls
    OBVIOUS
  <2>2. call'[s] = Idle /\ \A n \in Names : dms[n] \subseteq dms'[n]
    BY <2>1
  <2>3. ASSUME NEW t \in Slots, t # s PROVE Sound(t)'
    <3>1. call'[t] = call[t] /\ Sound(t) /\ (call[t].at # "idle" => call[t].by \in Names)
      BY <2>3 DEF InFlight
    <3> QED  BY <2>2, <3>1 DEF Sound
  <2>4. Sound(s)'
    BY <2>2 DEF Sound
  <2> QED  BY <2>3, <2>4 DEF InFlight
<1>8. Waiting'
  BY DEF Waiting, RemovedStaysRemoved, PendingPairs
<1>9. ListsKnown'
  <2>1. call[s] \in Calls
    OBVIOUS
  <2>2. call[s].to \in Names /\ call[s].by \in accounts \cup loose
    BY <2>1 DEF InFlight, Sound
  <2>3. \A n \in Names : dms'[n] \subseteq dms[n] \cup {call[s].by}
    BY <2>1, <2>2
  <2>4. accounts' = accounts /\ loose' = loose
    OBVIOUS
  <2> QED  BY <2>2, <2>3, <2>4 DEF ListsKnown
<1> QED  BY <1>1, <1>2, <1>3, <1>4, <1>5, <1>6, <1>7, <1>8, <1>9

\* Only the other's list grows.
LEMMA StartDMUnansweredKeeps ==
  ASSUME SocialInv, NEW s \in Slots, StartDMUnanswered(s)
  PROVE  SocialInv'
<1> USE SocialAssumption
        DEF SocialInv, SocialTypeOK, Steps, Calls, Idle, nameVars, friendVars, dmVars
<1> USE DEF StartDMUnanswered, Fault, Ends
<1>1. SocialTypeOK'
  OBVIOUS
<1>2. OrphansAreRenamed'
  BY DEF OrphansAreRenamed, PendingPairs, InFlight, Sound
<1>3. EmptyRenameIsRaced'
  BY DEF EmptyRenameIsRaced
<1>4. LeftoverIsCrossed'
  BY DEF LeftoverIsCrossed, PendingPairs, InFlight, Sound, Waiting
<1>5. RemovedStaysRemoved'
  BY DEF RemovedStaysRemoved, Waiting
<1>6. DMListedForBoth'
  <2>1. call[s].to \in Names
    OBVIOUS
  <2>2. (\A n \in Names : dms[n] \subseteq dms'[n]) /\ started' = started /\ loose' = loose
    BY <2>1
  <2> QED  BY <2>2 DEF DMListedForBoth
<1>7. InFlight'
  <2>1. call[s] \in Calls
    OBVIOUS
  <2>2. call'[s] = Idle /\ \A n \in Names : dms[n] \subseteq dms'[n]
    BY <2>1
  <2>3. ASSUME NEW t \in Slots, t # s PROVE Sound(t)'
    <3>1. call'[t] = call[t] /\ Sound(t) /\ (call[t].at # "idle" => call[t].by \in Names)
      BY <2>3 DEF InFlight
    <3> QED  BY <2>2, <3>1 DEF Sound
  <2>4. Sound(s)'
    BY <2>2 DEF Sound
  <2> QED  BY <2>3, <2>4 DEF InFlight
<1>8. Waiting'
  BY DEF Waiting, RemovedStaysRemoved, PendingPairs
<1>9. ListsKnown'
  <2>1. call[s] \in Calls
    OBVIOUS
  <2>2. call[s].to \in Names /\ call[s].by \in accounts \cup loose
    BY <2>1 DEF InFlight, Sound
  <2>3. \A n \in Names : dms'[n] \subseteq dms[n] \cup {call[s].by}
    BY <2>1, <2>2
  <2>4. accounts' = accounts /\ loose' = loose
    OBVIOUS
  <2> QED  BY <2>2, <2>3, <2>4 DEF ListsKnown
<1> QED  BY <1>1, <1>2, <1>3, <1>4, <1>5, <1>6, <1>7, <1>8, <1>9

\* A call that goes on with nothing written.
LEMMA AddToOwnFailsKeeps ==
  ASSUME SocialInv, NEW s \in Slots, AddToOwnFails(s)
  PROVE  SocialInv'
<1> USE SocialAssumption
        DEF SocialInv, SocialTypeOK, Steps, Calls, Idle, nameVars, friendVars, dmVars
<1> USE DEF AddToOwnFails, Fault, Moves
<1>1. SocialTypeOK'
  OBVIOUS
<1>2. OrphansAreRenamed'
  BY DEF OrphansAreRenamed, PendingPairs, InFlight, Sound
<1>3. EmptyRenameIsRaced'
  BY DEF EmptyRenameIsRaced
<1>4. LeftoverIsCrossed'
  BY DEF LeftoverIsCrossed, PendingPairs, InFlight, Sound, Waiting
<1>5. RemovedStaysRemoved'
  BY DEF RemovedStaysRemoved, Waiting
<1>6. DMListedForBoth'
  BY DEF DMListedForBoth, InFlight, Sound
<1>7. InFlight'
  BY DEF InFlight, Sound, OrphansAreRenamed, ListsKnown, PendingPairs
<1>8. Waiting'
  BY DEF Waiting, RemovedStaysRemoved, PendingPairs
<1>9. ListsKnown'
  BY DEF ListsKnown, InFlight, Sound, OrphansAreRenamed
<1> QED  BY <1>1, <1>2, <1>3, <1>4, <1>5, <1>6, <1>7, <1>8, <1>9

\* A call that ends, or goes on, with nothing written.
LEMMA AllLiveKeeps ==
  ASSUME SocialInv, NEW s \in Slots, AllLive(s)
  PROVE  SocialInv'
<1> USE SocialAssumption
        DEF SocialInv, SocialTypeOK, Steps, Calls, Idle, nameVars, friendVars, dmVars
<1> USE DEF AllLive, Ends
<1>1. SocialTypeOK'
  OBVIOUS
<1>2. OrphansAreRenamed'
  BY DEF OrphansAreRenamed, PendingPairs, InFlight, Sound
<1>3. EmptyRenameIsRaced'
  BY DEF EmptyRenameIsRaced
<1>4. LeftoverIsCrossed'
  BY DEF LeftoverIsCrossed, PendingPairs, InFlight, Sound, Waiting
<1>5. RemovedStaysRemoved'
  BY DEF RemovedStaysRemoved, Waiting
<1>6. DMListedForBoth'
  BY DEF DMListedForBoth, InFlight, Sound
<1>7. InFlight'
  BY DEF InFlight, Sound, OrphansAreRenamed, ListsKnown, PendingPairs
<1>8. Waiting'
  BY DEF Waiting, RemovedStaysRemoved, PendingPairs
<1>9. ListsKnown'
  BY DEF ListsKnown, InFlight, Sound, OrphansAreRenamed
<1> QED  BY <1>1, <1>2, <1>3, <1>4, <1>5, <1>6, <1>7, <1>8, <1>9

\* Who is in a list and is no account has given up the name.
LEMMA SomeStaleKeeps ==
  ASSUME SocialInv, NEW s \in Slots, SomeStale(s)
  PROVE  SocialInv'
<1> USE SocialAssumption
        DEF SocialInv, SocialTypeOK, Steps, Calls, Idle, nameVars, friendVars, dmVars
<1> USE DEF SomeStale
<1>1. SocialTypeOK'
  <2>1. call[s] \in Calls
    OBVIOUS
  <2>2. /\ call'[s].by = call[s].by /\ call'[s].at = "srem" /\ call'[s].to = call[s].to
        /\ call'[s].rows = call[s].rows \ accounts
    BY <2>1
  <2>3. call' \in [Slots -> Calls \cup {Idle}]
    BY <2>1, <2>2
  <2>4. \A t \in Slots : call'[t].at \in Steps \ {"select", "srem"} => call'[t].by # call'[t].to
    BY <2>1, <2>2
  <2> QED  BY <2>3, <2>4
<1>2. OrphansAreRenamed'
  BY DEF OrphansAreRenamed, PendingPairs, InFlight, Sound
<1>3. EmptyRenameIsRaced'
  BY DEF EmptyRenameIsRaced
<1>4. LeftoverIsCrossed'
  BY DEF LeftoverIsCrossed, PendingPairs, InFlight, Sound, Waiting
<1>5. RemovedStaysRemoved'
  BY DEF RemovedStaysRemoved, Waiting
<1>6. DMListedForBoth'
  BY DEF DMListedForBoth, InFlight, Sound
<1>7. InFlight'
  <2>1. call[s] \in Calls
    OBVIOUS
  <2>2. /\ call'[s].by = call[s].by /\ call'[s].at = "srem" /\ call'[s].to = call[s].to
        /\ call'[s].rows = call[s].rows \ accounts
    BY <2>1
  <2>5. ASSUME NEW t \in Slots, t # s PROVE Sound(t)'
    BY <2>5 DEF InFlight, Sound, OrphansAreRenamed, ListsKnown, PendingPairs
  <2>6. Sound(s)'
    BY <2>1, <2>2 DEF InFlight, Sound
  <2> QED  BY <2>5, <2>6 DEF InFlight
<1>8. Waiting'
  BY DEF Waiting, RemovedStaysRemoved, PendingPairs
<1>9. ListsKnown'
  BY DEF ListsKnown, InFlight, Sound, OrphansAreRenamed
<1> QED  BY <1>1, <1>2, <1>3, <1>4, <1>5, <1>6, <1>7, <1>8, <1>9

\* Only names given up are dropped.
LEMMA DropStaleKeeps ==
  ASSUME SocialInv, NEW s \in Slots, DropStale(s)
  PROVE  SocialInv'
<1> USE SocialAssumption
        DEF SocialInv, SocialTypeOK, Steps, Calls, Idle, nameVars, friendVars, dmVars
<1> USE DEF DropStale, Ends
<1>1. SocialTypeOK'
  OBVIOUS
<1>2. OrphansAreRenamed'
  BY DEF OrphansAreRenamed, PendingPairs, InFlight, Sound
<1>3. EmptyRenameIsRaced'
  BY DEF EmptyRenameIsRaced
<1>4. LeftoverIsCrossed'
  BY DEF LeftoverIsCrossed, PendingPairs, InFlight, Sound, Waiting
<1>5. RemovedStaysRemoved'
  BY DEF RemovedStaysRemoved, Waiting
<1>6. DMListedForBoth'
  BY DEF DMListedForBoth, InFlight, Sound
<1>7. InFlight'
  <2>1. call[s] \in Calls /\ call[s].rows \subseteq loose
    <3>1. Sound(s) /\ call[s].at = "srem"
      BY DEF InFlight
    <3>2. call[s].rows \subseteq loose
      BY <3>1 DEF Sound
    <3> QED  BY <3>1, <3>2
  <2>2. /\ call'[s] = Idle
        /\ \A n \in Names : dms[n] \ loose \subseteq dms'[n]
    BY <2>1
  <2>3. ASSUME NEW t \in Slots, t # s PROVE Sound(t)'
    <3>1. call'[t] = call[t] /\ Sound(t) /\ (call[t].at # "idle" => call[t].by \in Names)
      BY <2>3 DEF InFlight
    <3> QED  BY <2>2, <3>1 DEF Sound
  <2>4. Sound(s)'
    BY <2>2 DEF Sound
  <2> QED  BY <2>3, <2>4 DEF InFlight
<1>8. Waiting'
  BY DEF Waiting, RemovedStaysRemoved, PendingPairs
<1>9. ListsKnown'
  BY DEF ListsKnown, InFlight, Sound, OrphansAreRenamed
<1> QED  BY <1>1, <1>2, <1>3, <1>4, <1>5, <1>6, <1>7, <1>8, <1>9

\* SocialInv is inductive.
THEOREM SocialInvariant == Spec => []SocialInv
<1>1. Init => SocialInv
  BY SocialAssumption
     DEF Init, SocialInv, SocialTypeOK, OrphansAreRenamed, EmptyRenameIsRaced, LeftoverIsCrossed,
         RemovedStaysRemoved, DMListedForBoth, InFlight, Sound, Waiting, ListsKnown,
         PendingPairs, Idle, Steps
<1>2. ASSUME SocialInv, [Next]_vars PROVE SocialInv'
  <2>1. CASE UNCHANGED vars
    BY <1>2, <2>1
       DEF vars, nameVars, friendVars, dmVars, SocialInv, SocialTypeOK, OrphansAreRenamed,
           EmptyRenameIsRaced, LeftoverIsCrossed, RemovedStaysRemoved, DMListedForBoth,
           InFlight, Sound, Waiting, ListsKnown, PendingPairs
  <2>2. ASSUME NEW s \in Slots, NEW a \in Names, NEW b \in Names,
               Renamed(s, a, b) \/ RenamedUnanswered(s, a, b)
        PROVE  SocialInv'
    <3>1. /\ RowRenamed(s, a, b) /\ tokens' \in {tokens, tokens \cup {b}}
          /\ faults' \in 0..MaxFaults
      BY <1>2, <2>2, SocialAssumption
         DEF Renamed, RenamedUnanswered, Fault, SocialInv, SocialTypeOK
    <3> QED  BY <1>2, <3>1, RowRenamedKeeps
  <2>3. ASSUME NEW s \in Slots, CallStep(s) PROVE SocialInv'
    BY <1>2, <2>3, <2>2, InsertRequestKeeps, NameTakenKeeps, RenamedNothingKeeps,
       AreFriendsKeeps, NotFriendsKeeps, AlreadySentKeeps, NotSentKeeps, CheckFailsKeeps,
       InsertRefusedKeeps, QueryFailsKeeps, AddToOwnKeeps, AddToOtherKeeps,
       AddToOwnFailsKeeps, StartDMUnansweredKeeps, AllLiveKeeps, SomeStaleKeeps, DropStaleKeeps DEF CallStep
  <2> QED
    BY <1>2, <2>1, <2>3, RegisterKeeps, LoginKeeps, AcceptKeeps, DeclineKeeps, RemoveFriendKeeps,
       RenameKeeps, SendRequestKeeps, StartDMKeeps, GetDMListKeeps DEF Next
<1> QED  BY <1>1, <1>2, PTL DEF Spec

\* Between friends nothing is pending that was not sent across another request
\* or an acceptance: the check and the insert of SendFriendRequestHandler.
THEOREM LeftoversAreCrossed == Spec => []LeftoverIsCrossed
<1>1. SocialInv => LeftoverIsCrossed
  BY DEF SocialInv
<1> QED  BY <1>1, SocialInvariant, PTL

\* Nobody becomes a friend again without a new request (AcceptFriendRequestHandler).
THEOREM RemovalsLast == Spec => []RemovedStaysRemoved
<1>1. SocialInv => RemovedStaysRemoved
  BY DEF SocialInv
<1> QED  BY <1>1, SocialInvariant, PTL

\* A list being cleaned (GetDMListHandler) loses no DM between names still in use.
THEOREM StartedIsListed == Spec => []DMListedForBoth
<1>1. SocialInv => DMListedForBoth
  BY DEF SocialInv
<1> QED  BY <1>1, SocialInvariant, PTL

\* Rows that name no account are the work of renames only (UpdateUsernameHandler).
THEOREM OrphansComeFromRenames == Spec => []OrphansAreRenamed
<1>1. SocialInv => OrphansAreRenamed
  BY DEF SocialInv
<1> QED  BY <1>1, SocialInvariant, PTL

\* A rename is about to change nothing only when another session of the account
\* renamed it first, after this one had passed its checks (UpdateUsernameHandler).
THEOREM EmptyRenamesAreRaced == Spec => []EmptyRenameIsRaced
<1>1. SocialInv => EmptyRenameIsRaced
  BY DEF SocialInv
<1> QED  BY <1>1, SocialInvariant, PTL

\* The tables keep their types, for any names and slots.
THEOREM SocialTypes == Spec => []SocialTypeOK
<1>1. SocialInv => SocialTypeOK
  BY DEF SocialInv
<1> QED  BY <1>1, SocialInvariant, PTL

=============================================================================
