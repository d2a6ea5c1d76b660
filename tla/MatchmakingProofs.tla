------------------------- MODULE MatchmakingProofs -------------------------
(***************************************************************************)
(* Theorems about the matchmaker, for any clients, rooms, seats, capacity  *)
(* of the channel and number of requests.                                  *)
(***************************************************************************)
EXTENDS Matchmaking, FiniteSetTheorems, SequenceTheorems, TLAPS

\* The loop has a waiter in hand when it seats one or looks for another room.
InHand == at \in {"seat", "find"} => i <= Len(list)

\* A client that leaves its placing to the matchmaker: in no room, or in one
\* seat of the room its RoomID names.
OneSeat(c) ==
  IF roomOf[c] = Nowhere
  THEN \A r \in Room, k \in 1..SeatCount : players[r][k] # c
  ELSE \E n \in 1..SeatCount :
         \A r \in Room, k \in 1..SeatCount : players[r][k] = c <=> r = roomOf[c] /\ k = n

\* Nobody but the loop itself can have seated such a client since it looked.
Unplaced ==
  at = "seat" /\ list[i] \notin Joiners \cup gone => roomOf[list[i]] = Nowhere

IInv ==
  /\ SliceInRange /\ InHand /\ Unplaced
  /\ gone \subseteq Client
  /\ \A c \in Client \ (Joiners \cup gone) : OneSeat(c)

----------------------------------------------------------------------------
(* Operators. *)

\* Every set of numbers that is not empty has a first one, found by FirstOf.
\* (Of the sets of numbers below each of them, one is minimal.)
LEMMA FirstIsFirst ==
  ASSUME NEW S, S \subseteq Nat, S # {}
  PROVE  FirstOf(S) \in S
<1> DEFINE Below(k) == {j \in Nat : j < k}
           B == {Below(k) : k \in S}
<1>1. \A k \in S : Below(k) \in FiniteSubsetsOf(Nat)
  <2> SUFFICES ASSUME NEW k \in S PROVE IsFiniteSet(Below(k))
    BY DEF FiniteSubsetsOf
  <2> QED BY FS_BoundedSetOfNaturals
<1>2. PICK b \in B : \A c \in B : <<c, b>> \notin StrictSubsetOrdering(Nat)
  <2>1. B \subseteq FiniteSubsetsOf(Nat) /\ B # {} BY <1>1
  <2> HIDE DEF B
  <2> QED BY <2>1, FS_StrictSubsetOrderingWellFounded, WFMin
<1>3. PICK k \in S : b = Below(k) OBVIOUS
<1>4. ASSUME NEW j \in S PROVE k <= j
  <2> SUFFICES ASSUME j < k PROVE FALSE
    OBVIOUS
  <2>1. Below(j) \subseteq Below(k) /\ j \in Below(k) /\ j \notin Below(j)
    OBVIOUS
  <2>2. Below(j) \in B OBVIOUS
  <2>3. <<Below(j), Below(k)>> \in StrictSubsetOrdering(Nat) BY <2>1 DEF StrictSubsetOrdering
  <2> QED BY <2>2, <2>3, <1>2, <1>3
<1> QED BY <1>4 DEF FirstOf

LEMMA FirstSeat ==
  ASSUME NEW S, S \subseteq 1..SeatCount, S # {}
  PROVE  FirstOf(S) \in S
<1>1. S \subseteq Nat BY SizeAssumption
<1> QED BY <1>1, FirstIsFirst

\* What Enter does: one empty seat of the room gets the client.
LEMMA EnterEffect ==
  ASSUME TypeOK, NEW c \in Client, NEW r \in Room, EmptySeats(r) # {}, Enter(c, r)
  PROVE  /\ players' \in [Room -> [1..SeatCount -> Client \cup {Nobody}]]
         /\ roomOf' = [roomOf EXCEPT ![c] = r] /\ roomOf' \in [Client -> Room \cup {Nowhere}]
         /\ \E n \in 1..SeatCount :
              /\ players[r][n] = Nobody
              /\ \A q \in Room, k \in 1..SeatCount :
                   players'[q][k] = IF q = r /\ k = n THEN c ELSE players[q][k]
<1> DEFINE n == FirstOf(EmptySeats(r))
<1>1. n \in 1..SeatCount /\ players[r][n] = Nobody
  BY FirstSeat DEF EmptySeats
<1>2. players' = [players EXCEPT ![r][n] = c] /\ roomOf' = [roomOf EXCEPT ![c] = r]
  BY DEF Enter
<1> HIDE DEF n
<1> QED BY <1>1, <1>2 DEF TypeOK

\* What GiveUpSeat does: at most one seat changes, and that was the client's.
LEMMA GiveUpEffect ==
  ASSUME TypeOK, NEW c \in Client, roomOf[c] # Nowhere, GiveUpSeat(c)
  PROVE  /\ players' \in [Room -> [1..SeatCount -> Client \cup {Nobody}]]
         /\ \/ UNCHANGED players /\ \A k \in 1..SeatCount : players[roomOf[c]][k] # c
            \/ \E n \in 1..SeatCount :
                 /\ players[roomOf[c]][n] = c
                 /\ \A q \in Room, k \in 1..SeatCount :
                      players'[q][k] = IF q = roomOf[c] /\ k = n THEN Nobody ELSE players[q][k]
<1> DEFINE mine == {k \in 1..SeatCount : players[roomOf[c]][k] = c}
           n == FirstOf(mine)
<1>1. roomOf[c] \in Room BY DEF TypeOK
<1>2. CASE mine = {} BY <1>2 DEF GiveUpSeat, TypeOK
<1>3. CASE mine # {}
  <2>1. n \in mine BY <1>3, FirstSeat
  <2>2. players' = [players EXCEPT ![roomOf[c]][n] = Nobody] BY <1>3 DEF GiveUpSeat
  <2> HIDE DEF n
  <2> QED BY <1>1, <2>1, <2>2 DEF TypeOK
<1> QED BY <1>2, <1>3

\* Whoever comes or goes, the seats of the others stay theirs.
LEMMA OthersKeepTheirSeat ==
  ASSUME NEW c \in Client, NEW d \in Client, c # d, OneSeat(d), roomOf'[d] = roomOf[d],
         \A q \in Room, k \in 1..SeatCount :
           \/ players'[q][k] = players[q][k]
           \/ {players[q][k], players'[q][k]} = {c, Nobody}
  PROVE  OneSeat(d)'
<1>1. \A q \in Room, k \in 1..SeatCount : players'[q][k] = d <=> players[q][k] = d
  BY SizeAssumption
<1>2. CASE roomOf[d] = Nowhere BY <1>1, <1>2 DEF OneSeat
<1>3. CASE roomOf[d] # Nowhere BY <1>1, <1>3 DEF OneSeat
<1> QED BY <1>2, <1>3

----------------------------------------------------------------------------
(* The hub goroutine's steps. *)

LEMMA InitInv == Init => IInv
  BY SizeAssumption DEF Init, IInv, SliceInRange, TypeOK, InHand, Unplaced, OneSeat

LEMMA JoinRoomKeepsInv ==
  ASSUME IInv, NEW c \in Client, NEW r \in Room, JoinRoom(c, r) PROVE IInv'
<1> USE SizeAssumption
<1>1. UNCHANGED <<queue, waiting, requests, gone, at, list, i, room, remaining>> /\ c \in Joiners
  BY DEF JoinRoom, loopVars
<1>2. TypeOK BY DEF IInv, SliceInRange
<1>3. /\ players' \in [Room -> [1..SeatCount -> Client \cup {Nobody}]]
      /\ roomOf' = [roomOf EXCEPT ![c] = r] /\ roomOf' \in [Client -> Room \cup {Nowhere}]
      /\ \A q \in Room, k \in 1..SeatCount :
           \/ players'[q][k] = players[q][k]
           \/ {players[q][k], players'[q][k]} = {c, Nobody}
  <2>1. CASE r \in Available
    <3>1. EmptySeats(r) # {} /\ Enter(c, r) BY <2>1 DEF JoinRoom, Available
    <3> QED BY <1>2, <3>1, EnterEffect
  <2>2. CASE r \notin Available
    <3>1. UNCHANGED players /\ roomOf' = [roomOf EXCEPT ![c] = r] BY <2>2 DEF JoinRoom
    <3> QED BY <1>2, <3>1 DEF TypeOK
  <2> QED BY <2>1, <2>2
<1>4. TypeOK' BY <1>1, <1>2, <1>3 DEF TypeOK
<1>5. ASSUME NEW d \in Client \ (Joiners \cup gone) PROVE OneSeat(d)'
  <2>1. d # c /\ OneSeat(d) /\ roomOf'[d] = roomOf[d] BY <1>1, <1>2, <1>3 DEF IInv, TypeOK
  <2> QED BY <1>3, <2>1, OthersKeepTheirSeat
<1>6. Unplaced'
  <2> SUFFICES ASSUME at = "seat", list[i] \notin Joiners \cup gone PROVE roomOf'[list[i]] = Nowhere
    BY <1>1 DEF Unplaced
  <2>1. list[i] # c /\ list[i] \in Client /\ roomOf[list[i]] = Nowhere
    BY <1>1, <1>2 DEF IInv, InHand, Unplaced, TypeOK
  <2> QED BY <1>2, <1>3, <2>1 DEF TypeOK
<1> QED BY <1>1, <1>4, <1>5, <1>6 DEF IInv, SliceInRange, InHand

LEMMA LeaveRoomKeepsInv ==
  ASSUME IInv, NEW c \in Client, LeaveRoom(c) PROVE IInv'
<1> USE SizeAssumption
<1>1. /\ UNCHANGED <<queue, waiting, requests, gone, at, list, i, room, remaining>>
      /\ roomOf[c] # Nowhere /\ GiveUpSeat(c) /\ roomOf' = [roomOf EXCEPT ![c] = Nowhere]
  BY DEF LeaveRoom, loopVars
<1>2. TypeOK BY DEF IInv, SliceInRange
<1>3. TypeOK' BY <1>1, <1>2, GiveUpEffect DEF TypeOK
<1>4. \A q \in Room, k \in 1..SeatCount :
        \/ players'[q][k] = players[q][k]
        \/ {players[q][k], players'[q][k]} = {c, Nobody}
  BY <1>1, <1>2, GiveUpEffect
<1>5. ASSUME NEW d \in Client \ (Joiners \cup gone) PROVE OneSeat(d)'
  <2>1. CASE d # c
    <3>1. OneSeat(d) /\ roomOf'[d] = roomOf[d] BY <1>1, <1>2, <2>1 DEF IInv, TypeOK
    <3> QED BY <1>4, <2>1, <3>1, OthersKeepTheirSeat
  <2>2. CASE d = c
    <3>1. roomOf'[c] = Nowhere /\ roomOf[c] \in Room BY <1>1, <1>2 DEF TypeOK
    <3>2. PICK n \in 1..SeatCount :
            \A r \in Room, k \in 1..SeatCount : players[r][k] = c <=> r = roomOf[c] /\ k = n
      BY <1>1, <2>2 DEF IInv, OneSeat
    <3>3. \A q \in Room, k \in 1..SeatCount : players'[q][k] # c
      BY <1>1, <1>2, <3>1, <3>2, GiveUpEffect
    <3> QED BY <2>2, <3>1, <3>3 DEF OneSeat
  <2> QED BY <2>1, <2>2
<1>6. Unplaced' BY <1>1, <1>2 DEF IInv, InHand, Unplaced, TypeOK
<1> QED BY <1>1, <1>3, <1>5, <1>6 DEF IInv, SliceInRange, InHand

LEMMA DisconnectKeepsInv ==
  ASSUME IInv, NEW c \in Client, Disconnect(c) PROVE IInv'
<1> USE SizeAssumption
<1>1. /\ UNCHANGED <<roomOf, queue, waiting, requests, at, list, i, room, remaining>>
      /\ gone' = gone \cup {c}
  BY DEF Disconnect, loopVars
<1>2. TypeOK BY DEF IInv, SliceInRange
<1>3. /\ players' \in [Room -> [1..SeatCount -> Client \cup {Nobody}]]
      /\ \A q \in Room, k \in 1..SeatCount :
           \/ players'[q][k] = players[q][k]
           \/ {players[q][k], players'[q][k]} = {c, Nobody}
  <2>1. CASE roomOf[c] = Nowhere BY <1>2, <2>1 DEF Disconnect, TypeOK
  <2>2. CASE roomOf[c] # Nowhere BY <1>2, <2>2, GiveUpEffect DEF Disconnect
  <2> QED BY <2>1, <2>2
<1>4. TypeOK' BY <1>1, <1>2, <1>3 DEF TypeOK
<1>5. ASSUME NEW d \in Client \ (Joiners \cup gone') PROVE OneSeat(d)'
  <2>1. d # c /\ OneSeat(d) BY <1>1 DEF IInv
  <2> QED BY <1>1, <1>3, <2>1, OthersKeepTheirSeat
<1>6. Unplaced' BY <1>1 DEF IInv, Unplaced
<1> QED BY <1>1, <1>4, <1>5, <1>6 DEF IInv, SliceInRange, InHand

----------------------------------------------------------------------------
(* The loop's steps. *)

LEMMA SeatWaiterKeepsInv == ASSUME IInv, SeatWaiter PROVE IInv'
<1> USE SizeAssumption
<1> DEFINE c == list[i]
<1>1. /\ UNCHANGED <<queue, waiting, requests, gone, list, room>>
      /\ at = "seat" /\ room \in Room /\ c \in Client /\ i \in 1..Len(list)
      /\ TypeOK /\ Len(remaining) <= i - 1
  BY DEF SeatWaiter, IInv, SliceInRange, TypeOK, InHand
<1>2. CASE EmptySeats(room) # {}
  <2>1. /\ Enter(c, room) /\ i' = i + 1 /\ at' \in {"panic", "examine"}
        /\ UNCHANGED <<remaining, gone>>
    BY <1>1, <1>2 DEF SeatWaiter
  <2>2. /\ players' \in [Room -> [1..SeatCount -> Client \cup {Nobody}]]
        /\ roomOf' = [roomOf EXCEPT ![c] = room] /\ roomOf' \in [Client -> Room \cup {Nowhere}]
    BY <1>1, <1>2, <2>1, EnterEffect
  <2>3. PICK n \in 1..SeatCount :
          /\ players[room][n] = Nobody
          /\ \A q \in Room, k \in 1..SeatCount :
               players'[q][k] = IF q = room /\ k = n THEN c ELSE players[q][k]
    BY <1>1, <1>2, <2>1, EnterEffect
  <2>4. TypeOK' BY <1>1, <2>1, <2>2 DEF TypeOK
  <2>5. ASSUME NEW d \in Client \ (Joiners \cup gone) PROVE OneSeat(d)'
    <3>1. OneSeat(d) BY DEF IInv
    <3>2. CASE d # c
      <4>1. roomOf'[d] = roomOf[d] BY <1>1, <2>2, <3>2 DEF TypeOK
      <4> QED BY <1>1, <2>3, <3>1, <3>2, <4>1, OthersKeepTheirSeat
    <3>3. CASE d = c
      <4>1. \A r \in Room, k \in 1..SeatCount : players[r][k] # c
        BY <1>1, <3>1, <3>3 DEF IInv, Unplaced, OneSeat
      <4>2. roomOf'[c] = room BY <1>1, <2>2 DEF TypeOK
      <4>3. \A r \in Room, k \in 1..SeatCount : players'[r][k] = c <=> r = room /\ k = n
        BY <2>3, <4>1
      <4>4. roomOf'[d] # Nowhere BY <1>1, <3>3, <4>2
      <4>5. \E m \in 1..SeatCount :
              \A r \in Room, k \in 1..SeatCount : players'[r][k] = d <=> r = roomOf'[d] /\ k = m
        BY <3>3, <4>2, <4>3
      <4> QED BY ONLY <4>4, <4>5 DEF OneSeat
    <3> QED BY <3>2, <3>3
  <2>6. Len(remaining) <= (i + 1) - 1 BY <1>1 DEF TypeOK
  <2> QED BY <1>1, <2>1, <2>4, <2>5, <2>6 DEF IInv, SliceInRange, InHand, Unplaced
<1>3. CASE EmptySeats(room) = {}
  <2>1. /\ remaining' = Append(remaining, c) /\ at' = "find"
        /\ UNCHANGED <<players, roomOf, i>>
    BY <1>3 DEF SeatWaiter
  <2>2. remaining' \in Seq(Client) /\ Len(remaining') = Len(remaining) + 1
    BY <1>1, <2>1 DEF TypeOK
  <2>3. TypeOK' BY <1>1, <2>1, <2>2 DEF TypeOK
  <2>4. Len(remaining') <= i BY <1>1, <2>2 DEF TypeOK
  <2> QED BY <1>1, <2>1, <2>3, <2>4 DEF IInv, SliceInRange, InHand, Unplaced, OneSeat
<1> QED BY <1>2, <1>3

LEMMA FindAnotherRoomKeepsInv == ASSUME IInv, FindAnotherRoom PROVE IInv'
<1> USE SizeAssumption
<1>1. /\ UNCHANGED <<players, roomOf, queue, requests, gone>>
      /\ TypeOK /\ at = "find" /\ i \in 1..Len(list) /\ Len(remaining) <= i
  BY DEF FindAnotherRoom, IInv, SliceInRange, TypeOK, InHand
<1>2. CASE at' = "examine"
  <2>1. /\ room' \in Room /\ i' = i + 1
        /\ UNCHANGED <<waiting, remaining, list>>
    BY <1>2 DEF FindAnotherRoom, Available
  <2>2. TypeOK' BY <1>1, <1>2, <2>1 DEF TypeOK
  <2>3. Len(remaining) <= (i + 1) - 1 BY <1>1 DEF TypeOK
  <2>4. SliceInRange' BY <1>2, <2>1, <2>2, <2>3 DEF SliceInRange
  <2>0. UNCHANGED <<players, roomOf, gone>> BY <1>1
  <2>5. (\A c \in Client \ (Joiners \cup gone) : OneSeat(c))' BY <2>0 DEF IInv, OneSeat
  <2> QED BY <1>1, <1>2, <2>4, <2>5 DEF IInv, InHand, Unplaced
<1>3. CASE at' # "examine"
  <2>1. /\ waiting' = remaining \o SubSeq(list, Len(list) - Len(remaining) + 1, Len(list))
        /\ at' = "idle" /\ list' = << >> /\ i' = 1 /\ room' = Nowhere /\ remaining' = << >>
    BY <1>3 DEF FindAnotherRoom
  <2>2. waiting' \in Seq(Client)
    <3> DEFINE m == Len(list) - Len(remaining) + 1
    <3>1. m \in Int /\ m >= 1 /\ Len(list) \in Int BY <1>1 DEF TypeOK
    <3>2. \A k \in m..Len(list) : list[k] \in Client BY <1>1, <3>1 DEF TypeOK
    <3> HIDE DEF m
    <3>3. SubSeq(list, m, Len(list)) \in Seq(Client) BY <3>1, <3>2, SubSeqProperties
    <3>4. waiting' = remaining \o SubSeq(list, m, Len(list)) BY <2>1 DEF m
    <3> QED BY <1>1, <3>3, <3>4, ConcatProperties DEF TypeOK
  <2>3. TypeOK' BY <1>1, <2>1, <2>2 DEF TypeOK
  <2> QED BY <1>1, <2>1, <2>3 DEF IInv, SliceInRange, InHand, Unplaced, OneSeat
<1> QED BY <1>2, <1>3

LEMMA QuietStepsKeepInv ==
  ASSUME IInv,
         \/ \E c \in Client : RequestMatch(c)
         \/ AddToWaitList \/ Tick \/ Examine \/ Finish \/ UNCHANGED vars
  PROVE  IInv'
<1> USE SizeAssumption
<1>1. TypeOK BY DEF IInv, SliceInRange
<1>2. UNCHANGED <<players, roomOf, gone>>
  BY DEF RequestMatch, AddToWaitList, Tick, Examine, Finish, vars
<1>3. (\A c \in Client \ (Joiners \cup gone) : OneSeat(c))' /\ gone' \subseteq Client
  BY <1>2 DEF IInv, OneSeat
<1>4. CASE \E c \in Client : RequestMatch(c)
  <2>1. PICK c \in Client : RequestMatch(c) BY <1>4
  <2> QED BY <1>1, <1>2, <1>3, <2>1 DEF RequestMatch, loopVars, IInv, SliceInRange, TypeOK, InHand, Unplaced
<1>5. CASE AddToWaitList
  <2>1. queue' \in Seq(Client) /\ waiting' \in Seq(Client) BY <1>1, <1>5 DEF AddToWaitList, TypeOK
  <2> QED BY <1>1, <1>2, <1>3, <1>5, <2>1 DEF AddToWaitList, loopVars, IInv, SliceInRange, TypeOK, InHand, Unplaced
<1>6. CASE Tick
  <2>1. room' \in Room BY <1>6 DEF Tick, Available
  <2> QED BY <1>1, <1>2, <1>3, <1>6, <2>1 DEF Tick, IInv, SliceInRange, TypeOK, InHand, Unplaced
<1>7. CASE Examine
  <2>1. i' \in 1 .. Len(list) + 1 /\ i' >= i BY <1>1, <1>7 DEF Examine, TypeOK
  <2>2. TypeOK' BY <1>1, <1>2, <1>7, <2>1 DEF Examine, TypeOK
  <2>3. Len(remaining) <= i' - 1 BY <1>1, <1>7, <2>1 DEF Examine, IInv, SliceInRange, TypeOK
  <2>4. InHand' /\ Unplaced' BY <1>2, <1>7 DEF Examine, InHand, Unplaced
  <2>5. UNCHANGED remaining /\ at' # "find" BY <1>7 DEF Examine
  <2>6. SliceInRange' BY <2>2, <2>3, <2>5 DEF SliceInRange
  <2> QED BY <1>3, <2>4, <2>6 DEF IInv
<1>8. CASE Finish
  BY <1>1, <1>2, <1>3, <1>8 DEF Finish, IInv, SliceInRange, TypeOK, InHand, Unplaced
<1>9. CASE UNCHANGED vars
  BY <1>1, <1>2, <1>3, <1>9 DEF vars, loopVars, IInv, SliceInRange, TypeOK, InHand, Unplaced
<1> QED BY <1>4, <1>5, <1>6, <1>7, <1>8, <1>9

LEMMA StepInv == IInv /\ [Next]_vars => IInv'
  BY JoinRoomKeepsInv, LeaveRoomKeepsInv, DisconnectKeepsInv, SeatWaiterKeepsInv,
     FindAnotherRoomKeepsInv, QuietStepsKeepInv DEF Next, Matchmaker

----------------------------------------------------------------------------

\* The inductive invariant: types, the loop's place in its list, and where the
\* clients are that leave their placing to the matchmaker.
THEOREM MatchmakerInvariance == Spec => []IInv
<1> QED BY InitInv, StepInv, PTL DEF Spec

\* The slice of the list that is kept when the rooms run out (service.go:98) is
\* within the list: the loop has kept no more waiters than it has passed.
THEOREM SliceSafe == Spec => []SliceInRange
<1>1. IInv => SliceInRange BY DEF IInv
<1> QED BY <1>1, MatchmakerInvariance, PTL

\* A client that leaves its placing to the matchmaker sits in one seat, of the
\* room its RoomID names, however often it asked.
THEOREM OneSeatEach == Spec => []SeatedOnce
<1>1. IInv => SeatedOnce
  <2> SUFFICES ASSUME IInv, NEW c \in Client \ (Joiners \cup gone)
               PROVE  \/ SeatsOf(c) = {} /\ roomOf[c] = Nowhere
                      \/ \E k \in 1..SeatCount : SeatsOf(c) = {<<roomOf[c], k>>}
    BY DEF SeatedOnce
  <2>1. OneSeat(c) /\ roomOf[c] \in Room \cup {Nowhere} BY DEF IInv, SliceInRange, TypeOK
  <2>2. CASE roomOf[c] = Nowhere BY <2>1, <2>2 DEF OneSeat, SeatsOf
  <2>3. CASE roomOf[c] # Nowhere
    <3>1. PICK n \in 1..SeatCount :
            \A r \in Room, k \in 1..SeatCount : players[r][k] = c <=> r = roomOf[c] /\ k = n
      BY <2>1, <2>3 DEF OneSeat
    <3>2. SeatsOf(c) = {<<roomOf[c], n>>} BY <2>1, <2>3, <3>1 DEF SeatsOf
    <3> QED BY <3>2
  <2> QED BY <2>2, <2>3
<1> QED BY <1>1, MatchmakerInvariance, PTL
=============================================================================
