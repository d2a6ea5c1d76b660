---------------------------- MODULE EngineProofs ----------------------------
(***************************************************************************)
(* Theorems about the room (Engine), for every number of ranks, every set  *)
(* of clients and users, every deal and every list of cards a client may   *)
(* send.                                                                   *)
(***************************************************************************)
EXTENDS Engine, FiniteSetTheorems, TLAPS

----------------------------------------------------------------------------
(* Lemmas about the operators. *)

\* Every non-empty set of seats has a lowest one (FindEmptySeat and
\* FindPlayerByUserID return an index into Players).
LEMMA LowestSeat ==
  ASSUME NEW S \in SUBSET Seat, S # {}
  PROVE  Lowest(S) \in S /\ \A j \in S : Lowest(S) <= j
<1>1. \E i \in S : \A j \in S : i <= j
  <2>1. CASE 0 \in S
    BY <2>1 DEF Seat
  <2>2. CASE 0 \notin S /\ 1 \in S
    BY <2>2 DEF Seat
  <2>3. CASE 0 \notin S /\ 1 \notin S /\ 2 \in S
    BY <2>3 DEF Seat
  <2>4. CASE 0 \notin S /\ 1 \notin S /\ 2 \notin S
    <3>1. \A j \in S : j = 3
      BY <2>4 DEF Seat
    <3>2. QED
      BY <3>1
  <2>5. QED
    BY <2>1, <2>2, <2>3, <2>4
<1>2. QED
  BY <1>1 DEF Lowest

\* The deck is finite, and so is every hand.
LEMMA HandsFinite ==
  ASSUME NEW cards \in SUBSET Card
  PROVE  IsFiniteSet(cards) /\ Cardinality(cards) \in Nat
<1>1. IsFiniteSet(Card)
  BY FS_Interval, RankCountAssumption DEF Card
<1>2. QED
  BY <1>1, FS_Subset, FS_CardinalityType

\* ClassifyCombination returns a combination or refuses.
LEMMA ClassifyType ==
  ASSUME NEW cards
  PROVE  ClassifyCombination(cards) \in Combo \cup {Invalid}
BY DEF ClassifyCombination, Combo, Invalid

\* The empty list is no combination.
LEMMA ClassifyNonEmpty ==
  ASSUME NEW cards \in SUBSET Card, ClassifyCombination(cards) # Invalid
  PROVE  cards # {}
<1>1. SUFFICES ASSUME cards = {} PROVE ClassifyCombination(cards) = Invalid
  OBVIOUS
<1>2. Cardinality(cards) = 0
  BY <1>1, FS_EmptySet
<1>3. QED
  BY <1>2 DEF ClassifyCombination

\* Where the turn goes when all four seats can play.
LEMMA NextTurnInGame ==
  ASSUME NEW counts, turn \in Seat,
         seat[(turn + 1) % 4] # Nobody, counts[(turn + 1) % 4] > 0
  PROVE  NextTurn(counts) = (turn + 1) % 4
<1> DEFINE After(k) == (turn + k) % 4
           Playable(k) == seat[After(k)] # Nobody /\ counts[After(k)] > 0
           K == {k \in 1..4 : Playable(k)}
<1>1. 1 \in K /\ \A j \in K : 1 <= j
  OBVIOUS
<1>2. Lowest(K) = 1
  BY <1>1 DEF Lowest
<1>3. QED
  BY <1>1, <1>2 DEF NextTurn

----------------------------------------------------------------------------
(* The inductive invariant.  None of the properties is inductive alone:    *)
(* the turn order needs every seat to be playable (SeatedWhilePlaying),    *)
(* that needs the matchmaker to find no seat in a running game, the        *)
(* settlement needs the hands and the counts to agree, and they need       *)
(* CleanLobby when a game is abandoned.                                    *)

RoomInv ==
  /\ RoomTypeOK
  /\ SeatedWhilePlaying
  /\ TurnFollowsPlay
  /\ TurnHasTimer
  /\ CardsConserved
  /\ WinnerEmptied
  /\ CleanLobby

IInv == TypeOK /\ RoomInv

roomVars == <<phase, playerVars, roundVars, otherVars>>

LEMMA RoomInvStutters ==
  ASSUME RoomInv, UNCHANGED roomVars
  PROVE  RoomInv'
BY DEF RoomInv, roomVars, playerVars, roundVars, otherVars, RoomTypeOK,
       SeatedWhilePlaying, TurnFollowsPlay, TurnHasTimer, CardsConserved,
       WinnerEmptied, CleanLobby

\* Taking an empty seat: only the lobby has one.
LEMMA TakeSeatKeepsInv ==
  ASSUME RoomInv, NEW u \in User, EmptySeats # {}, TakeSeat(u),
         UNCHANGED <<phase, roundVars, otherVars>>
  PROVE  RoomInv'
<1> DEFINE i == Lowest(EmptySeats)
<1>1. i \in Seat
  BY LowestSeat DEF EmptySeats
<1>2. phase = "LOBBY" /\ phase' = "LOBBY"
  BY DEF RoomInv, SeatedWhilePlaying, EmptySeats
<1>3. hand' = hand /\ cardCount' = cardCount
  BY <1>1, <1>2 DEF TakeSeat, RoomInv, CleanLobby, RoomTypeOK
<1>4. RoomTypeOK'
  BY <1>1, <1>3 DEF RoomInv, RoomTypeOK, TakeSeat, roundVars, otherVars
<1>5. CardsConserved' /\ CleanLobby'
  BY <1>3 DEF RoomInv, CardsConserved, CleanLobby, roundVars
<1>6. SeatedWhilePlaying' /\ TurnFollowsPlay' /\ TurnHasTimer' /\ WinnerEmptied'
  BY <1>2 DEF SeatedWhilePlaying, TurnFollowsPlay, TurnHasTimer, WinnerEmptied
<1>7. QED
  BY <1>4, <1>5, <1>6 DEF RoomInv

\* Giving up a seat, in the lobby or in a game, or leaving the spectators.
LEMMA LeaveKeepsInv ==
  ASSUME RoomInv, NEW u \in User, HandlePlayerLeave(u)
  PROVE  RoomInv'
<1>1. CASE SeatsOf(u) = {}
  <2>1. UNCHANGED roomVars
    BY <1>1 DEF HandlePlayerLeave, roomVars, roundVars
  <2>2. QED
    BY <2>1, RoomInvStutters
<1>2. CASE \E i \in SeatsOf(u) : Vacate(i)
  <2>1. PICK i \in Seat : Vacate(i)
    BY <1>2 DEF SeatsOf
  <2>2. UNCHANGED <<turn, winner, otherVars>>
    BY DEF HandlePlayerLeave
  <2>3. phase' = "LOBBY" /\ table' = NoPlay /\ passCount' = 0
    BY <2>1 DEF Vacate, RoomInv, CleanLobby
  <2>4. hand' = [j \in Seat |-> {}] /\ cardCount' = [j \in Seat |-> 0]
    BY <2>1 DEF Vacate, RoomInv, CleanLobby, RoomTypeOK
  <2>5. seat' \in [Seat -> User \cup {Nobody}] /\ ready' \in [Seat -> BOOLEAN]
    BY <2>1 DEF Vacate, RoomInv, RoomTypeOK
  <2>6. RoomTypeOK'
    BY <2>2, <2>3, <2>4, <2>5 DEF RoomInv, RoomTypeOK, otherVars, Phase
  <2>7. CardsConserved' /\ CleanLobby'
    BY <2>3, <2>4, FS_EmptySet DEF CardsConserved, CleanLobby
  <2>8. SeatedWhilePlaying' /\ TurnFollowsPlay' /\ TurnHasTimer' /\ WinnerEmptied'
    BY <2>3 DEF SeatedWhilePlaying, TurnFollowsPlay, TurnHasTimer, WinnerEmptied
  <2>9. QED
    BY <2>6, <2>7, <2>8 DEF RoomInv
<1>3. QED
  BY <1>1, <1>2 DEF HandlePlayerLeave

\* The game starts with four players and every card dealt once.
LEMMA StartGameKeepsInv ==
  ASSUME RoomInv, NEW r, AllPlayersReady(r), StartGame,
         UNCHANGED <<seat, expired, resets>>
  PROVE  RoomInv'
<1>1. PICK d \in Deals :
        /\ phase' = "PLAYING"
        /\ hand' = d
        /\ cardCount' = [i \in Seat |-> HandSize]
        /\ ready' = [i \in Seat |-> FALSE]
        /\ turn' = CHOOSE i \in Seat : ThreeOfSpades \in d[i]
        /\ table' = NoPlay /\ passCount' = 0 /\ winner' = NoWinner
        /\ timer' = turn'
  BY DEF StartGame
<1>2. turn' \in Seat
  BY <1>1, DealAssumption
<1>3. HandSize \in Nat /\ HandSize > 0
  BY RankCountAssumption DEF HandSize
<1>4. /\ d \in [Seat -> SUBSET Card]
      /\ \A i \in Seat : Cardinality(d[i]) = HandSize
      /\ \A i, j \in Seat : i # j => d[i] \cap d[j] = {}
  BY DealAssumption
<1>5. RoomTypeOK'
  BY <1>1, <1>2, <1>3, <1>4 DEF RoomInv, RoomTypeOK, Phase
<1>6. SeatedWhilePlaying'
  BY <1>1, <1>3 DEF AllPlayersReady, SeatedWhilePlaying
<1>7. TurnFollowsPlay' /\ WinnerEmptied' /\ CleanLobby'
  BY <1>1 DEF TurnFollowsPlay, WinnerEmptied, CleanLobby
<1>8. TurnHasTimer'
  <2>1. timer' = turn'
    BY <1>1
  <2>2. timer' # NoTimer
    BY <2>1, <1>2 DEF NoTimer, Seat
  <2>3. QED
    BY <2>1, <2>2 DEF TurnHasTimer
<1>9. CardsConserved'
  <2>1. table'.cards = {}
    BY <1>1 DEF NoPlay
  <2>2. QED
    BY <1>1, <1>4, <2>1 DEF CardsConserved
<1>10. QED
  BY <1>5, <1>6, <1>7, <1>8, <1>9 DEF RoomInv

\* advanceTurn in a game in which everybody still holds cards: the turn goes
\* to the next seat, whose timer starts, and the table is not cleared by the
\* owner check, because fewer than three passes were counted.
LEMMA AdvanceTurnInGame ==
  ASSUME RoomTypeOK,
         NEW t \in TablePlay \cup {NoPlay}, NEW p \in 0..2,
         NEW counts \in [Seat -> Nat],
         \A i \in Seat : seat[i] # Nobody /\ counts[i] > 0,
         t # NoPlay => turn = (t.owner + p) % 4,
         AdvanceTurn(t, p, counts)
  PROVE  /\ turn' = (turn + 1) % 4 /\ turn' \in Seat
         /\ table' = t /\ passCount' = p
         /\ t # NoPlay => turn' = (t.owner + p + 1) % 4
         /\ timer' = turn'
         /\ UNCHANGED <<phase, winner, resets>>
<1>1. turn \in Seat /\ (turn + 1) % 4 \in Seat
  BY DEF RoomTypeOK, Seat
<1>2. NextTurn(counts) = (turn + 1) % 4
  BY <1>1, NextTurnInGame
<1>3. t # NoPlay => t.owner \in Seat
  BY DEF TablePlay
<1>4. t # NoPlay => (turn + 1) % 4 = (t.owner + p + 1) % 4 /\ t.owner # (turn + 1) % 4
  <2>1. SUFFICES ASSUME NEW o \in Seat, turn = (o + p) % 4
                 PROVE  (turn + 1) % 4 = (o + p + 1) % 4 /\ o # (turn + 1) % 4
    BY <1>3
  <2>2. o \in {0, 1, 2, 3} /\ p \in {0, 1, 2}
    BY DEF Seat
  <2>3. QED
    BY <2>1, <2>2
<1>5. QED
  BY <1>1, <1>2, <1>4 DEF AdvanceTurn

\* Passing, by the player or for him.
LEMMA PassInGame ==
  ASSUME RoomInv, phase = "PLAYING", Pass
  PROVE  /\ turn' = (turn + 1) % 4 /\ turn' \in Seat
         /\ table' = IF passCount = 2 THEN NoPlay ELSE table
         /\ passCount' = IF passCount = 2 THEN 0 ELSE passCount + 1
         /\ timer' = turn'
         /\ table' # NoPlay => turn' = (table'.owner + passCount' + 1) % 4
         /\ UNCHANGED <<phase, winner, resets>>
<1>1. \A i \in Seat : seat[i] # Nobody /\ cardCount[i] > 0
  BY DEF RoomInv, SeatedWhilePlaying
<1>2. RoomTypeOK /\ cardCount \in [Seat -> Nat] /\ table \in TablePlay \cup {NoPlay}
      /\ passCount \in 0..2
  BY DEF RoomInv, RoomTypeOK
<1>3. CASE passCount = 2
  <2>1. AdvanceTurn(NoPlay, 0, cardCount)
    BY <1>3 DEF Pass
  <2>2. QED
    BY <1>1, <1>2, <1>3, <2>1, AdvanceTurnInGame
<1>4. CASE passCount # 2
  <2>1. passCount + 1 \in 0..2 /\ AdvanceTurn(table, passCount + 1, cardCount)
    BY <1>2, <1>4 DEF Pass
  <2>2. table # NoPlay => turn = (table.owner + (passCount + 1)) % 4
    <3>1. table # NoPlay => turn = (table.owner + passCount + 1) % 4 /\ table.owner \in Seat
      BY <1>2 DEF RoomInv, TurnFollowsPlay, TablePlay
    <3>2. QED
      BY <1>2, <3>1 DEF Seat
  <2>3. /\ turn' = (turn + 1) % 4 /\ turn' \in Seat
        /\ table' = table /\ passCount' = passCount + 1
        /\ table # NoPlay => turn' = (table.owner + (passCount + 1) + 1) % 4
        /\ timer' = turn'
        /\ UNCHANGED <<phase, winner, resets>>
    BY <1>1, <1>2, <2>1, <2>2, AdvanceTurnInGame
  <2>4. QED
    BY <1>4, <2>3
<1>5. QED
  BY <1>3, <1>4

LEMMA PassKeepsInv ==
  ASSUME RoomInv, phase = "PLAYING", Pass, UNCHANGED playerVars,
         expired' \in [Seat -> Nat]
  PROVE  RoomInv'
<1>1. /\ turn' \in Seat
      /\ table' \in {table, NoPlay} /\ passCount' \in 0..2
      /\ timer' = turn'
      /\ table' # NoPlay => turn' = (table'.owner + passCount' + 1) % 4
      /\ UNCHANGED <<phase, winner, resets>>
  <2>1. passCount \in 0..2
    BY DEF RoomInv, RoomTypeOK
  <2>2. QED
    BY <2>1, PassInGame
<1>2. RoomTypeOK'
  BY <1>1 DEF RoomInv, RoomTypeOK, playerVars
<1>3. SeatedWhilePlaying'
  BY <1>1 DEF RoomInv, SeatedWhilePlaying, playerVars
<1>4. TurnFollowsPlay' /\ WinnerEmptied' /\ CleanLobby'
  BY <1>1 DEF TurnFollowsPlay, WinnerEmptied, CleanLobby
<1>5. TurnHasTimer'
  BY <1>1 DEF TurnHasTimer, NoTimer, Seat
<1>6. CardsConserved'
  <2>1. table'.cards \in {table.cards, {}}
    BY <1>1 DEF NoPlay
  <2>2. QED
    BY <2>1 DEF RoomInv, CardsConserved, playerVars
<1>7. QED
  BY <1>2, <1>3, <1>4, <1>5, <1>6 DEF RoomInv

\* What playing cards does: they leave the hand for the table and the turn
\* goes on, or, if they were the last ones, the game is settled.
PlayEffect ==
  /\ phase = "PLAYING" /\ table'.owner = turn /\ table' # NoPlay
  /\ hand' = [hand EXCEPT ![turn] = hand'[turn]]
  /\ hand[turn] = hand'[turn] \cup table'.cards
  /\ \/ phase' = "SETTLEMENT" /\ turn' = turn /\ cardCount'[turn] = 0
     \/ phase' = "PLAYING" /\ turn' = (turn + 1) % 4

LEMMA PlayInGame ==
  ASSUME RoomInv, NEW c \in Client, NEW list \in Seq(Card), HandlePlayCards(c, list)
  PROVE  RoomInv' /\ PlayEffect
<1> DEFINE cards == {list[k] : k \in DOMAIN list}
           combo == ClassifyCombination(cards)
           left == hand[turn] \ cards
           counts == [cardCount EXCEPT ![turn] = Cardinality(left)]
           play == [owner |-> turn, cards |-> cards, combo |-> combo]
<1>1. /\ phase = "PLAYING" /\ combo # Invalid
      /\ PlayerOwnsCards(hand[turn], list)
      /\ hand' = [hand EXCEPT ![turn] = left]
      /\ cardCount' = counts
      /\ IF counts[turn] = 0 THEN EndGame(play, counts)
                             ELSE AdvanceTurn(play, 0, counts)
      /\ UNCHANGED <<seat, ready, expired>>
  BY DEF HandlePlayCards, RemoveCards
<1>2. /\ RoomTypeOK /\ turn \in Seat
      /\ hand \in [Seat -> SUBSET Card] /\ cardCount \in [Seat -> Nat]
  BY DEF RoomInv, RoomTypeOK
<1>3. cards \subseteq hand[turn] /\ cards \in SUBSET Card
  BY <1>1, <1>2 DEF PlayerOwnsCards
<1>4. left \in SUBSET Card /\ Cardinality(left) \in Nat
  BY <1>2, <1>3, HandsFinite
<1>5. counts \in [Seat -> Nat] /\ counts[turn] = Cardinality(left)
  BY <1>2, <1>4
<1>6. play \in TablePlay
  BY <1>1, <1>2, <1>3, ClassifyType DEF TablePlay
<1>7. \A i \in Seat : seat[i] # Nobody /\ cardCount[i] > 0
  BY <1>1 DEF RoomInv, SeatedWhilePlaying
<1>8. hand' \in [Seat -> SUBSET Card] /\ cardCount' \in [Seat -> Nat]
  BY <1>1, <1>2, <1>4, <1>5
<1>9. /\ \A i \in Seat : cardCount'[i] = Cardinality(hand'[i])
      /\ \A i, j \in Seat : i # j => hand'[i] \cap hand'[j] = {}
      /\ \A i \in Seat : hand'[i] \cap play.cards = {}
  <2>1. /\ \A i \in Seat : cardCount[i] = Cardinality(hand[i])
        /\ \A i, j \in Seat : i # j => hand[i] \cap hand[j] = {}
    BY DEF RoomInv, CardsConserved
  <2>2. \A i \in Seat : hand'[i] = IF i = turn THEN left ELSE hand[i]
    BY <1>1, <1>2
  <2>3. \A i \in Seat : cardCount'[i] = IF i = turn THEN Cardinality(left) ELSE cardCount[i]
    BY <1>1, <1>2
  <2>4. play.cards = cards
    OBVIOUS
  <2>5. \A i \in Seat : hand'[i] \subseteq hand[i]
    BY <2>2
  <2>6. \A i \in Seat : hand'[i] \cap cards = {}
    BY <1>2, <1>3, <2>1, <2>2
  <2>7. QED
    BY <2>1, <2>2, <2>3, <2>4, <2>5, <2>6
<1>10. play # NoPlay /\ play.owner = turn /\ play.cards = cards
  BY <1>2 DEF NoPlay, Seat
<1>11. /\ hand' = [hand EXCEPT ![turn] = hand'[turn]]
       /\ hand[turn] = hand'[turn] \cup cards
  <2>1. hand'[turn] = left
    BY <1>1, <1>2
  <2>2. QED
    BY <1>1, <1>3, <2>1
<1>12. CASE counts[turn] = 0
  <2>1. /\ phase' = "SETTLEMENT" /\ table' = play /\ passCount' = 0 /\ timer' = NoTimer
        /\ winner' = Lowest({i \in Seat : seat[i] # Nobody /\ counts[i] = 0})
        /\ resets < MaxResets /\ resets' = resets + 1 /\ turn' = turn
    BY <1>1, <1>12 DEF EndGame
  <2>2. {i \in Seat : seat[i] # Nobody /\ counts[i] = 0} = {turn}
    <3>1. \A i \in Seat : counts[i] = 0 <=> i = turn
      BY <1>2, <1>5, <1>7, <1>12
    <3>2. QED
      BY <1>2, <1>7, <3>1
  <2>3. winner' = turn
    BY <1>2, <2>1, <2>2, LowestSeat
  <2>4. resets' \in 0..MaxResets
    BY <1>2, <2>1, BoundAssumption DEF RoomTypeOK
  <2>5. RoomTypeOK'
    BY <1>1, <1>2, <1>6, <1>8, <2>1, <2>3, <2>4 DEF RoomTypeOK, Phase
  <2>6. SeatedWhilePlaying' /\ TurnFollowsPlay' /\ TurnHasTimer' /\ CleanLobby'
    BY <1>1, <1>7, <2>1 DEF SeatedWhilePlaying, TurnFollowsPlay, TurnHasTimer, CleanLobby
  <2>7. CardsConserved'
    BY <1>9, <2>1 DEF CardsConserved
  <2>8. WinnerEmptied'
    <3>1. \A i \in Seat : cardCount'[i] = 0 <=> i = turn
      BY <1>1, <1>2, <1>5, <1>7, <1>12
    <3>2. QED
      BY <1>2, <2>1, <2>3, <3>1 DEF WinnerEmptied
  <2>9. PlayEffect
    BY <1>1, <1>5, <1>10, <1>11, <1>12, <2>1 DEF PlayEffect
  <2>10. QED
    BY <2>5, <2>6, <2>7, <2>8, <2>9 DEF RoomInv
<1>13. CASE counts[turn] # 0
  <2>1. \A i \in Seat : seat[i] # Nobody /\ counts[i] > 0
    BY <1>2, <1>5, <1>7, <1>13
  <2>2. PICK zero \in 0..2 : zero = 0
    OBVIOUS
  <2>3. AdvanceTurn(play, zero, counts)
    BY <1>1, <1>13, <2>2
  <2>4. play \in TablePlay \cup {NoPlay} /\ play.owner = turn /\ turn = (play.owner + zero) % 4
    BY <1>2, <1>6, <2>2 DEF Seat
  <2> HIDE DEF play, counts
  <2>5. /\ turn' \in Seat /\ table' = play /\ passCount' = 0 /\ timer' = turn'
        /\ play # NoPlay => turn' = (play.owner + zero + 1) % 4
        /\ UNCHANGED <<phase, winner, resets>>
    BY <1>2, <1>5, <2>1, <2>2, <2>3, <2>4, AdvanceTurnInGame
  <2>6. RoomTypeOK'
    BY <1>1, <1>2, <1>6, <1>8, <2>5 DEF RoomTypeOK
  <2>7. SeatedWhilePlaying'
    BY <1>1, <2>1, <2>5 DEF SeatedWhilePlaying
  <2>8. TurnFollowsPlay' /\ CleanLobby' /\ WinnerEmptied'
    BY <1>1, <1>2, <2>2, <2>4, <2>5 DEF TurnFollowsPlay, CleanLobby, WinnerEmptied, Seat
  <2>9. TurnHasTimer'
    BY <2>5 DEF TurnHasTimer, NoTimer, Seat
  <2>10. CardsConserved'
    BY <1>9, <2>5 DEF CardsConserved
  <2>11. turn' = (turn + 1) % 4
    BY <1>2, <1>10, <2>2, <2>5 DEF Seat
  <2>12. PlayEffect
    BY <1>1, <1>10, <1>11, <2>5, <2>11 DEF PlayEffect
  <2>13. QED
    BY <2>6, <2>7, <2>8, <2>9, <2>10, <2>12 DEF RoomInv
<1>14. QED
  BY <1>12, <1>13

LEMMA ResetKeepsInv ==
  ASSUME RoomInv, ResetRoom
  PROVE  RoomInv'
<1>1. /\ phase' = "LOBBY" /\ table' = NoPlay /\ passCount' = 0
      /\ hand' = [i \in Seat |-> {}] /\ cardCount' = [i \in Seat |-> 0]
  BY DEF ResetRoom
<1>2. resets' \in 0..MaxResets
  BY BoundAssumption DEF ResetRoom, RoomInv, RoomTypeOK
<1>3. RoomTypeOK'
  BY <1>1, <1>2 DEF ResetRoom, RoomInv, RoomTypeOK, Phase
<1>4. CardsConserved' /\ CleanLobby'
  BY <1>1, FS_EmptySet DEF CardsConserved, CleanLobby, NoPlay
<1>5. SeatedWhilePlaying' /\ TurnFollowsPlay' /\ TurnHasTimer' /\ WinnerEmptied'
  BY <1>1 DEF SeatedWhilePlaying, TurnFollowsPlay, TurnHasTimer, WinnerEmptied
<1>6. QED
  BY <1>3, <1>4, <1>5 DEF RoomInv

\* A callback leaves its place in expired to the one that runs.
LEMMA TimeoutKeepsInv ==
  ASSUME RoomInv, NEW i \in Seat, TurnTimeout(i)
  PROVE  RoomInv'
<1>1. expired' = [expired EXCEPT ![i] = expired[i] - 1] /\ UNCHANGED playerVars
      /\ expired \in [Seat -> Nat] /\ expired[i] > 0
  BY DEF TurnTimeout, RoomInv, RoomTypeOK
<1>2. expired' \in [Seat -> Nat]
  BY <1>1
<1>3. CASE phase = "PLAYING" /\ turn = i
  BY <1>1, <1>2, <1>3, PassKeepsInv DEF TurnTimeout
<1>4. CASE ~(phase = "PLAYING" /\ turn = i)
  <2>1. UNCHANGED <<phase, roundVars, timer, resets>>
    BY <1>4 DEF TurnTimeout
  <2>2. phase = "PLAYING" => expired'[turn] = expired[turn]
    BY <1>1, <1>4 DEF RoomInv, RoomTypeOK
  <2>3. TurnHasTimer'
    BY <2>1, <2>2 DEF RoomInv, TurnHasTimer, roundVars
  <2>4. QED
    BY <1>1, <1>2, <2>1, <2>3 DEF RoomInv, RoomTypeOK, SeatedWhilePlaying,
      TurnFollowsPlay, CardsConserved, WinnerEmptied, CleanLobby, playerVars, roundVars
<1>5. QED
  BY <1>3, <1>4

LEMMA ExpiryKeepsInv ==
  ASSUME RoomInv, TimerExpires
  PROVE  RoomInv'
<1>1. /\ timer \in Seat /\ timer' = NoTimer
      /\ expired' = [expired EXCEPT ![timer] = expired[timer] + 1]
      /\ expired \in [Seat -> Nat]
      /\ UNCHANGED <<phase, playerVars, roundVars, resets>>
  BY DEF TimerExpires, RoomInv, RoomTypeOK
<1>2. expired' \in [Seat -> Nat] /\ expired'[timer] > 0
  BY <1>1
<1>3. TurnHasTimer'
  BY <1>1, <1>2 DEF RoomInv, TurnHasTimer, NoTimer, Seat, roundVars
<1>4. QED
  BY <1>1, <1>2, <1>3 DEF RoomInv, RoomTypeOK, SeatedWhilePlaying,
    TurnFollowsPlay, CardsConserved, WinnerEmptied, CleanLobby, playerVars, roundVars

----------------------------------------------------------------------------
(* The invariant holds at the start and every action keeps it. *)

LEMMA InitInv == Init => IInv
<1> SUFFICES ASSUME Init PROVE IInv
  OBVIOUS
<1>1. RoomTypeOK
  BY BoundAssumption DEF Init, RoomTypeOK, Phase, Seat
<1>2. TypeOK
  BY <1>1 DEF Init, TypeOK
<1>3. CardsConserved
  BY FS_EmptySet DEF Init, CardsConserved
<1>4. QED
  BY <1>1, <1>2, <1>3 DEF IInv, RoomInv, Init, SeatedWhilePlaying, TurnFollowsPlay,
    TurnHasTimer, WinnerEmptied, CleanLobby

\* The part of the invariant about the room itself.
LEMMA RoomInvStep ==
  ASSUME IInv, [Next]_vars
  PROVE  RoomInv'
<1> USE DEF IInv
<1>1. ASSUME NEW c \in Client, HandleJoinRoom(c) PROVE RoomInv'
  <2>1. UserOf[c] \in User
    BY UserAssumption
  <2>2. CASE phase = "LOBBY" /\ EmptySeats # {}
    BY <1>1, <2>1, <2>2, TakeSeatKeepsInv DEF HandleJoinRoom
  <2>3. CASE ~(phase = "LOBBY" /\ EmptySeats # {})
    BY <1>1, <2>3, RoomInvStutters DEF HandleJoinRoom, roomVars
  <2>4. QED
    BY <2>2, <2>3
<1>2. ASSUME NEW c \in Client, HandleLeaveRoom(c) PROVE RoomInv'
  BY <1>2, UserAssumption, LeaveKeepsInv DEF HandleLeaveRoom
<1>3. ASSUME NEW c \in Client, Unregister(c) PROVE RoomInv'
  <2>1. CASE inRoom[c]
    BY <1>3, <2>1, UserAssumption, LeaveKeepsInv DEF Unregister
  <2>2. CASE ~inRoom[c]
    BY <1>3, <2>2, RoomInvStutters DEF Unregister, roomVars
  <2>3. QED
    BY <2>1, <2>2
<1>4. ASSUME NEW c \in Client, MatchPick(c) PROVE RoomInv'
  BY <1>4, RoomInvStutters DEF MatchPick, roomVars
<1>5. ASSUME MatchSeat PROVE RoomInv'
  <2>1. pick.client \in Client
    BY <1>5 DEF TypeOK, MatchSeat
  <2>2. UserOf[pick.client] \in User
    BY <2>1, UserAssumption
  <2>3. CASE EmptySeats = {}
    BY <1>5, <2>3, RoomInvStutters DEF MatchSeat, roomVars
  <2>4. CASE EmptySeats # {}
    BY <1>5, <2>2, <2>4, TakeSeatKeepsInv DEF MatchSeat
  <2>5. QED
    BY <2>3, <2>4
<1>6. ASSUME NEW c \in Client, HandleReady(c) PROVE RoomInv'
  <2> DEFINE i == Lowest(SeatsOf(UserOf[c]))
             toggled == [ready EXCEPT ![i] = ~ready[i]]
  <2>1. CASE AllPlayersReady(toggled)
    <3>1. StartGame /\ UNCHANGED <<seat, expired, resets>>
      BY <1>6, <2>1 DEF HandleReady
    <3>2. QED
      BY <2>1, <3>1, StartGameKeepsInv
  <2>2. CASE ~AllPlayersReady(toggled)
    <3>1. /\ ready' = toggled
          /\ UNCHANGED <<phase, seat, hand, cardCount, roundVars, timer, expired, resets>>
      BY <1>6, <2>2 DEF HandleReady
    <3>2. i \in Seat
      BY <1>6, LowestSeat DEF HandleReady, SeatsOf
    <3>3. ready' \in [Seat -> BOOLEAN]
      BY <3>1, <3>2 DEF RoomInv, RoomTypeOK
    <3>4. QED
      BY <3>1, <3>3 DEF RoomInv, RoomTypeOK, SeatedWhilePlaying, TurnHasTimer,
        TurnFollowsPlay, CardsConserved, WinnerEmptied, CleanLobby, roundVars
  <2>3. QED
    BY <2>1, <2>2
<1>7. ASSUME NEW c \in Client, NEW list \in Lists, HandlePlayCards(c, list) PROVE RoomInv'
  BY <1>7, ListAssumption, PlayInGame
<1>8. ASSUME NEW c \in Client, HandlePassTurn(c) PROVE RoomInv'
  <2>1. phase = "PLAYING" /\ Pass /\ UNCHANGED playerVars /\ expired' \in [Seat -> Nat]
    BY <1>8 DEF HandlePassTurn, RoomInv, RoomTypeOK
  <2>2. QED
    BY <2>1, PassKeepsInv
<1>9. CASE UNCHANGED vars
  BY <1>9, RoomInvStutters DEF vars, roomVars
<1>10. QED
  BY <1>1, <1>2, <1>3, <1>4, <1>5, <1>6, <1>7, <1>8, <1>9,
     ExpiryKeepsInv, TimeoutKeepsInv, ResetKeepsInv DEF Next

\* The part about who is where.
LEMMA RemovalType ==
  ASSUME NEW spec \in Seq(User), NEW u \in User
  PROVE  Without(spec, u) \in Seq(User)
<1>1. CASE \E k \in DOMAIN spec : spec[k] = u
  <2>1. Len(spec) - 1 \in Nat
    BY <1>1
  <2>2. \A k \in 1 .. Len(spec) - 1 : spec[k] \in User /\ spec[k + 1] \in User
    OBVIOUS
  <2>3. QED
    BY <1>1, <2>1, <2>2 DEF Without
<1>2. QED
  BY <1>1 DEF Without

LEMMA MembershipType ==
  ASSUME IInv, [Next]_vars
  PROVE  /\ spectators' \in Seq(User)
         /\ inRoom' \in [Client -> BOOLEAN]
         /\ pick' \in [client : Client, live : BOOLEAN] \cup {NoPick}
<1> DEFINE Good == /\ spectators' \in Seq(User)
                   /\ inRoom' \in [Client -> BOOLEAN]
                   /\ pick' \in [client : Client, live : BOOLEAN] \cup {NoPick}
<1>1. /\ spectators \in Seq(User)
      /\ inRoom \in [Client -> BOOLEAN]
      /\ pick \in [client : Client, live : BOOLEAN] \cup {NoPick}
  BY DEF IInv, TypeOK
<1>2. \A c \in Client : UserOf[c] \in User
  BY UserAssumption
<1>3. ASSUME NEW u \in User, HandlePlayerLeave(u) PROVE spectators' \in Seq(User)
  BY <1>1, <1>3, RemovalType DEF HandlePlayerLeave, Vacate
<1>4. ASSUME NEW c \in Client, HandleJoinRoom(c) PROVE Good
  BY <1>1, <1>2, <1>4 DEF HandleJoinRoom
<1>5. ASSUME NEW c \in Client, HandleLeaveRoom(c) PROVE Good
  BY <1>1, <1>2, <1>3, <1>5 DEF HandleLeaveRoom
<1>6. ASSUME NEW c \in Client, Unregister(c) PROVE Good
  <2>1. spectators' \in Seq(User)
    BY <1>1, <1>2, <1>3, <1>6 DEF Unregister
  <2>2. inRoom' \in [Client -> BOOLEAN]
    BY <1>1, <1>6 DEF Unregister
  <2>3. pick.client = c => pick \in [client : Client, live : BOOLEAN]
    BY <1>1, UserAssumption DEF NoPick
  <2>4. pick' \in [client : Client, live : BOOLEAN] \cup {NoPick}
    BY <1>1, <1>6, <2>3 DEF Unregister
  <2>5. QED
    BY <2>1, <2>2, <2>4
<1>7. ASSUME NEW c \in Client, MatchPick(c) PROVE Good
  BY <1>1, <1>7 DEF MatchPick
<1>8. ASSUME MatchSeat PROVE Good
  BY <1>1, <1>8 DEF MatchSeat
<1>9. CASE UNCHANGED <<spectators, inRoom, pick>>
  BY <1>1, <1>9
<1>10. ASSUME NEW c \in Client, HandleReady(c) PROVE Good
  BY <1>9, <1>10 DEF HandleReady
<1>11. ASSUME NEW c \in Client, NEW list \in Lists, HandlePlayCards(c, list) PROVE Good
  BY <1>9, <1>11 DEF HandlePlayCards
<1>12. ASSUME NEW c \in Client, HandlePassTurn(c) PROVE Good
  BY <1>9, <1>12 DEF HandlePassTurn
<1>13. ASSUME NEW i \in Seat, TurnTimeout(i) PROVE Good
  BY <1>9, <1>13 DEF TurnTimeout
<1>14. CASE TimerExpires \/ ResetRoom \/ UNCHANGED vars
  BY <1>9, <1>14 DEF TimerExpires, ResetRoom, vars
<1>15. QED
  BY <1>4, <1>5, <1>6, <1>7, <1>8, <1>10, <1>11, <1>12, <1>13, <1>14 DEF Next

LEMMA StepInv == IInv /\ [Next]_vars => IInv'
<1>1. ASSUME IInv, [Next]_vars PROVE IInv'
  <2>1. RoomInv'
    BY <1>1, RoomInvStep
  <2>2. QED
    BY <1>1, <2>1, MembershipType DEF IInv, TypeOK, RoomInv
<1>2. QED
  BY <1>1

----------------------------------------------------------------------------
(* The settlement. *)

Twos == {c \in Card : RankOf(c) = Two}

\* There are four 2s.
LEMMA FourTwos == IsFiniteSet(Twos) /\ Cardinality(Twos) = 4
<1> DEFINE a == 4 * (RankCount - 1)
           b == 4 * RankCount - 1
<1>1. a \in Int /\ b \in Int /\ b - a + 1 = 4 /\ ~(a > b) BY RankCountAssumption
<1>2. Twos = a .. b
  <2>1. ASSUME NEW c \in Card PROVE RankOf(c) = Two <=> c >= a
    BY RankCountAssumption DEF Card, RankOf, Two
  <2>2. \A c : c \in a .. b <=> c \in Card /\ c >= a BY RankCountAssumption DEF Card
  <2> HIDE DEF a, b
  <2> QED BY <2>1, <2>2 DEF Twos
<1> HIDE DEF a, b
<1> QED BY <1>1, <1>2, FS_Interval

\* What deadPigMultiplier counts.
LEMMA CountedTwos ==
  ASSUME NEW cards \in SUBSET Card
  PROVE  /\ CountTwos(cards) \in Nat
         /\ CountTwos(cards) = 4 <=> Twos \subseteq cards
         /\ CountTwos(cards) > 0 <=> \E c \in cards : RankOf(c) = Two
<1> DEFINE T == {c \in cards : RankOf(c) = Two}
<1>1. T \in SUBSET Twos BY DEF Twos
<1>2. IsFiniteSet(T) /\ Cardinality(T) \in Nat /\ (Cardinality(T) = 4 => Twos = T)
  BY <1>1, FourTwos, FS_Subset, FS_CardinalityType
<1>3. Twos \subseteq cards => T = Twos BY DEF Twos
<1>4. Cardinality(T) > 0 <=> T # {} BY <1>2, FS_EmptySet
<1>5. CountTwos(cards) = Cardinality(T) BY DEF CountTwos
<1> HIDE DEF T
<1>6. CountTwos(cards) = 4 <=> Twos \subseteq cards
  <2>1. ASSUME Twos = T PROVE Twos \subseteq cards BY <2>1 DEF T
  <2> QED BY <1>2, <1>3, <1>5, <2>1, FourTwos
<1>7. T # {} <=> \E c \in cards : RankOf(c) = Two BY DEF T
<1> QED BY <1>2, <1>4, <1>5, <1>6, <1>7

\* The multiplier is the highest penalty that applies.
LEMMA HighestPenalty ==
  ASSUME NEW cards \in SUBSET Card, NEW m, m = DeadPigMultiplier(cards, Cardinality(cards))
  PROVE  m \in {1, 2, 3, 4} /\ m \in Penalties(cards) /\ \A n \in Penalties(cards) : n <= m
<1> DEFINE twos == \E c \in cards : RankOf(c) = Two
           full == Cardinality(cards) = HandSize
           all == Twos \subseteq cards
<1>1. Penalties(cards) = {1} \cup (IF twos THEN {2} ELSE {}) \cup (IF full THEN {3} ELSE {})
                           \cup (IF all THEN {4} ELSE {})
  BY DEF Penalties, Twos
<1>2. m = IF all THEN 4 ELSE IF full THEN 3 ELSE IF twos THEN 2 ELSE 1
  BY CountedTwos DEF DeadPigMultiplier
<1> HIDE DEF twos, full, all
<1> QED BY <1>1, <1>2

\* The division by ten leaves no rest.
LEMMA FeeIsExact ==
  ASSUME NEW k \in Nat PROVE Ante * k \in Nat /\ 10 * ServerFee(Ante * k) = Ante * k
<1>1. CASE Ante = 100
  <2>1. (100 * k) \div 10 = 10 * k OBVIOUS
  <2> QED BY <1>1, <2>1 DEF ServerFee
<1>2. CASE Ante = 500
  <2>1. (500 * k) \div 10 = 50 * k OBVIOUS
  <2> QED BY <1>2, <2>1 DEF ServerFee
<1>3. CASE Ante = 1000
  <2>1. (1000 * k) \div 10 = 100 * k OBVIOUS
  <2> QED BY <1>3, <2>1 DEF ServerFee
<1> QED BY <1>1, <1>2, <1>3, AnteAssumption

LEMMA SettlementAddsUp == IInv => SettlementAsDocumented
<1> SUFFICES ASSUME IInv, phase = "SETTLEMENT" PROVE SettlementAsDocumented
  BY DEF SettlementAsDocumented
<1> DEFINE M(i) == IF i = winner THEN 0 ELSE DeadPigMultiplier(hand[i], cardCount[i])
           K == M(0) + M(1) + M(2) + M(3)
           Pays(i) == LoserPays(hand, cardCount, winner, i)
           pot == TotalPot(hand, cardCount, winner)
           Delta(i) == GoldDelta(hand, cardCount, winner, i)
<1>1. winner \in Seat /\ \A i \in Seat : hand[i] \in SUBSET Card /\ cardCount[i] = Cardinality(hand[i])
  BY DEF IInv, TypeOK, RoomInv, RoomTypeOK, WinnerEmptied, CardsConserved
<1>2. \A i \in Seat \ {winner} :
        /\ M(i) \in {1, 2, 3, 4} /\ M(i) \in Penalties(hand[i])
        /\ \A n \in Penalties(hand[i]) : n <= M(i)
  BY <1>1, HighestPenalty
<1>3. M(winner) = 0 OBVIOUS
<1>4. \A i \in Seat : M(i) \in Nat BY <1>2, <1>3
<1>5. Ante \in Nat BY AnteAssumption
<1>6. \A i \in Seat : Pays(i) = Ante * M(i) BY <1>5 DEF LoserPays
<1> HIDE DEF M
<1>7. 0 \in Seat /\ 1 \in Seat /\ 2 \in Seat /\ 3 \in Seat BY DEF Seat
<1>8. K \in Nat /\ pot = Ante * K
  <2>1. pot = Ante * M(0) + Ante * M(1) + Ante * M(2) + Ante * M(3) BY <1>6, <1>7 DEF TotalPot
  <2> QED BY <1>4, <1>5, <1>7, <2>1
<1> HIDE DEF K
<1>9. pot \in Nat /\ 10 * ServerFee(pot) = pot /\ ServerFee(pot) \in Nat
  <2>1. pot \in Nat /\ 10 * ServerFee(pot) = pot BY <1>8, FeeIsExact
  <2> QED BY <2>1 DEF ServerFee
<1>10. Delta(winner) = pot - ServerFee(pot) /\ \A i \in Seat \ {winner} : Delta(i) = -Pays(i)
  BY DEF GoldDelta
<1>11. 10 * Delta(winner) = 9 * pot BY <1>9, <1>10
<1>12. /\ \A i \in Seat : Pays(i) \in Nat
       /\ Pays(winner) = 0 /\ pot = Pays(0) + Pays(1) + Pays(2) + Pays(3)
  BY <1>1, <1>3, <1>4, <1>5, <1>6 DEF TotalPot
<1> HIDE DEF pot, Delta, Pays
<1>13. Delta(0) + Delta(1) + Delta(2) + Delta(3) = -ServerFee(pot)
  <2>1. winner = 0 \/ winner = 1 \/ winner = 2 \/ winner = 3 BY <1>1 DEF Seat
  <2>2. CASE winner = 0 BY <1>7, <1>9, <1>10, <1>12, <2>2
  <2>3. CASE winner = 1 BY <1>7, <1>9, <1>10, <1>12, <2>3
  <2>4. CASE winner = 2 BY <1>7, <1>9, <1>10, <1>12, <2>4
  <2>5. CASE winner = 3 BY <1>7, <1>9, <1>10, <1>12, <2>5
  <2> QED BY <2>1, <2>2, <2>3, <2>4, <2>5
<1>14. ASSUME NEW i \in Seat \ {winner}
       PROVE  \E m \in Penalties(hand[i]) :
                Delta(i) = -(Ante * m) /\ \A n \in Penalties(hand[i]) : n <= m
  <2>1. Delta(i) = -(Ante * M(i)) BY <1>6, <1>10
  <2> QED BY <1>2, <2>1
<1> QED BY <1>11, <1>13, <1>14 DEF SettlementAsDocumented, pot, Delta

----------------------------------------------------------------------------
(* The theorems. *)

\* The inductive invariant holds in every reachable state.
THEOREM Invariance == Spec => []IInv
<1>1. IInv /\ [Next]_vars => IInv'
  BY StepInv
<1>2. QED
  BY InitInv, <1>1, PTL DEF Spec

\* Every variable keeps its type: in particular Winner, CurrentTurn and the
\* timer's seat index Players, and PassCount never passes 2 (engine.go).
THEOREM TypeCorrect == Spec => []TypeOK
<1>1. IInv => TypeOK
  BY DEF IInv
<1>2. QED
  BY Invariance, <1>1, PTL

\* Whatever clients, timers, the matchmaker and old resets do, a game being
\* played or settled has four players, who all hold cards while it is played.
THEOREM AlwaysSeated == Spec => []SeatedWhilePlaying
<1>1. IInv => SeatedWhilePlaying
  BY DEF IInv, RoomInv
<1>2. QED
  BY Invariance, <1>1, PTL

\* PassCount and the owner of the table play always agree about the turn.
THEOREM TurnOrder == Spec => []TurnFollowsPlay
<1>1. IInv => TurnFollowsPlay
  BY DEF IInv, RoomInv
<1>2. QED
  BY Invariance, <1>1, PTL

\* A running game always has the turn's timer, or its callback, under way.
THEOREM NeverWithoutTimer == Spec => []TurnHasTimer
<1>1. IInv => TurnHasTimer
  BY DEF IInv, RoomInv
<1>2. QED
  BY Invariance, <1>1, PTL

\* Cards are neither lost to two places nor miscounted.
THEOREM CardsSafe == Spec => []CardsConserved
<1>1. IInv => CardsConserved
  BY DEF IInv, RoomInv
<1>2. QED
  BY Invariance, <1>1, PTL

\* endGame always finds the winner, and settles with him alone.
THEOREM OneWinner == Spec => []WinnerEmptied
<1>1. IInv => WinnerEmptied
  BY DEF IInv, RoomInv
<1>2. QED
  BY Invariance, <1>1, PTL

\* Nothing of a game is left in the lobby, whichever way it ended.
THEOREM LobbyIsClean == Spec => []CleanLobby
<1>1. IInv => CleanLobby
  BY DEF IInv, RoomInv
<1>2. QED
  BY Invariance, <1>1, PTL

\* Whatever a game came to, the winner gets nine tenths of the pot, the sums add
\* up, and every loser pays the highest penalty that applies to his cards
\* (endGame and deadPigMultiplier of engine.go), with decks of any size.
THEOREM SettlementRight == Spec => []SettlementAsDocumented
<1> QED
  BY Invariance, SettlementAddsUp, PTL

----------------------------------------------------------------------------
(* What a step may do: every step of the program is one of these five.     *)

Quiet == UNCHANGED <<phase, turn, table>> /\ (phase = "PLAYING" => UNCHANGED hand)

Abandon ==
  /\ phase' = "LOBBY" /\ table' = NoPlay /\ turn' = turn
  /\ (\E i \in Seat : seat'[i] = Nobody) \/ resets' < resets

Begin ==
  /\ phase = "LOBBY" /\ phase' = "PLAYING" /\ table' = NoPlay /\ turn' \in Seat

\* A pass hands the turn on, and clears the table exactly when the turn
\* arrives at the seat whose cards are on it, after three passes.
PassEffect ==
  /\ phase = "PLAYING" /\ phase' = "PLAYING" /\ hand' = hand
  /\ turn' = (turn + 1) % 4
  /\ table' \in {table, NoPlay}
  /\ table'.owner = IF table.owner = turn' THEN 4 ELSE table.owner
  /\ table # NoPlay /\ table' = NoPlay => turn' = table.owner /\ passCount = 2

LEMMA PassHasEffect ==
  ASSUME RoomInv, phase = "PLAYING", Pass, UNCHANGED hand
  PROVE  PassEffect
<1>1. /\ turn' = (turn + 1) % 4 /\ phase' = "PLAYING"
      /\ table' = IF passCount = 2 THEN NoPlay ELSE table
  BY PassInGame
<1>2. turn \in Seat /\ passCount \in 0..2 /\ table \in TablePlay \cup {NoPlay}
  BY DEF RoomInv, RoomTypeOK
<1>3. CASE table = NoPlay
  <2>1. table.owner = 4 /\ table' = NoPlay /\ turn' # 4
    BY <1>1, <1>2, <1>3 DEF NoPlay, Seat
  <2>2. QED
    BY <1>1, <1>3, <2>1 DEF PassEffect
<1>4. CASE table # NoPlay
  <2>1. table.owner \in Seat /\ turn = (table.owner + passCount + 1) % 4
    BY <1>2, <1>4 DEF RoomInv, TurnFollowsPlay, TablePlay
  <2>2. turn' = table.owner <=> passCount = 2
    <3>1. \A o \in {0, 1, 2, 3}, k \in {0, 1, 2} : (((o + k + 1) % 4) + 1) % 4 = o <=> k = 2
      <4>1. SUFFICES ASSUME NEW o \in {0, 1, 2, 3}, NEW k \in {0, 1, 2}
                     PROVE  (((o + k + 1) % 4) + 1) % 4 = o <=> k = 2
        OBVIOUS
      <4>2. (((o + k + 1) % 4) + 1) % 4 = (o + k + 2) % 4
        OBVIOUS
      <4>3. QED
        BY <4>2
    <3>2. table.owner \in {0, 1, 2, 3} /\ passCount \in {0, 1, 2}
      BY <1>2, <2>1 DEF Seat
    <3>3. turn' = (((table.owner + passCount + 1) % 4) + 1) % 4
      BY <1>1, <2>1
    <3>4. QED
      BY <3>1, <3>2, <3>3
  <2>3. NoPlay.owner = 4
    BY DEF NoPlay
  <2>4. QED
    BY <1>1, <1>4, <2>2, <2>3 DEF PassEffect
<1>5. QED
  BY <1>3, <1>4

LEMMA StepEffects ==
  ASSUME IInv, [Next]_vars
  PROVE  Quiet \/ Abandon \/ Begin \/ PlayEffect \/ PassEffect
<1> USE DEF IInv
<1>1. ASSUME NEW c \in Client, HandleJoinRoom(c) PROVE Quiet
  <2>1. CASE phase = "LOBBY"
    BY <1>1, <2>1 DEF HandleJoinRoom, Quiet, roundVars
  <2>2. CASE phase # "LOBBY"
    BY <1>1, <2>2 DEF HandleJoinRoom, Quiet, roundVars, playerVars
  <2>3. QED
    BY <2>1, <2>2
<1>2. ASSUME NEW u \in User, HandlePlayerLeave(u) PROVE Quiet \/ Abandon
  <2>1. CASE SeatsOf(u) = {}
    BY <1>2, <2>1 DEF HandlePlayerLeave, Quiet, playerVars
  <2>2. CASE \E i \in SeatsOf(u) : Vacate(i)
    <3>1. PICK i \in Seat : Vacate(i)
      BY <2>2 DEF SeatsOf
    <3>2. turn' = turn
      BY <1>2 DEF HandlePlayerLeave
    <3>3. seat'[i] = Nobody
      BY <3>1 DEF Vacate, RoomInv, RoomTypeOK
    <3>4. CASE phase = "LOBBY"
      BY <3>1, <3>2, <3>4 DEF Vacate, Quiet
    <3>5. CASE phase # "LOBBY"
      BY <3>1, <3>2, <3>3, <3>5 DEF Vacate, Abandon
    <3>6. QED
      BY <3>4, <3>5
  <2>3. QED
    BY <1>2, <2>1, <2>2 DEF HandlePlayerLeave
<1>3. ASSUME NEW c \in Client, HandleLeaveRoom(c) \/ Unregister(c)
      PROVE  Quiet \/ Abandon
  <2>1. CASE HandlePlayerLeave(UserOf[c])
    BY <1>2, <2>1, UserAssumption
  <2>2. CASE UNCHANGED <<phase, playerVars, spectators, roundVars, otherVars>>
    BY <2>2 DEF Quiet, playerVars, roundVars
  <2>3. QED
    BY <1>3, <2>1, <2>2 DEF HandleLeaveRoom, Unregister
<1>4. ASSUME NEW c \in Client, MatchPick(c) PROVE Quiet
  BY <1>4 DEF MatchPick, Quiet, playerVars, roundVars
<1>5. ASSUME MatchSeat PROVE Quiet
  <2>1. CASE EmptySeats = {}
    BY <1>5, <2>1 DEF MatchSeat, Quiet, playerVars, roundVars
  <2>2. CASE EmptySeats # {}
    BY <1>5, <2>2 DEF MatchSeat, Quiet, roundVars, EmptySeats, RoomInv, SeatedWhilePlaying
  <2>3. QED
    BY <2>1, <2>2
<1>6. ASSUME NEW c \in Client, HandleReady(c) PROVE Quiet \/ Begin
  <2>1. CASE StartGame
    <3>1. PICK d \in Deals :
            /\ phase' = "PLAYING" /\ table' = NoPlay
            /\ turn' = CHOOSE i \in Seat : ThreeOfSpades \in d[i]
      BY <2>1 DEF StartGame
    <3>2. turn' \in Seat
      BY <3>1, DealAssumption
    <3>3. QED
      BY <1>6, <3>1, <3>2 DEF Begin, HandleReady
  <2>2. CASE ~StartGame
    BY <1>6, <2>2 DEF HandleReady, Quiet, roundVars
  <2>3. QED
    BY <2>1, <2>2
<1>7. ASSUME NEW c \in Client, NEW list \in Lists, HandlePlayCards(c, list) PROVE PlayEffect
  BY <1>7, ListAssumption, PlayInGame
<1>8. ASSUME NEW c \in Client, HandlePassTurn(c) PROVE PassEffect
  BY <1>8, PassHasEffect DEF HandlePassTurn, playerVars
<1>9. ASSUME TimerExpires PROVE Quiet
  BY <1>9 DEF TimerExpires, Quiet, playerVars, roundVars
<1>10. ASSUME NEW i \in Seat, TurnTimeout(i) PROVE Quiet \/ PassEffect
  BY <1>10, PassHasEffect DEF TurnTimeout, Quiet, playerVars, roundVars
<1>11. ASSUME ResetRoom PROVE Abandon
  <2>1. resets \in Nat /\ resets' = resets - 1
    BY <1>11, BoundAssumption DEF ResetRoom, RoomInv, RoomTypeOK
  <2>2. QED
    BY <1>11, <2>1 DEF ResetRoom, Abandon
<1>12. CASE UNCHANGED vars
  BY <1>12 DEF vars, Quiet, playerVars, roundVars
<1>13. QED
  BY <1>1, <1>3, <1>4, <1>5, <1>6, <1>7, <1>8, <1>9, <1>10, <1>11, <1>12 DEF Next

\* When a round is cleared the player whose cards lay there has the turn,
\* three passes later (README.md:172).
THEOREM RoundClearing == Spec => RoundGoesToLastPlayer
<1>1. IInv /\ [Next]_vars
        => [ phase = "PLAYING" /\ phase' = "PLAYING" /\ table # NoPlay /\ table' = NoPlay
               => turn' = table.owner /\ passCount = 2 /\ hand' = hand ]_vars
  BY StepEffects DEF Quiet, Abandon, Begin, PlayEffect, PassEffect
<1>2. QED
  BY Invariance, <1>1, PTL DEF Spec, RoundGoesToLastPlayer

\* A running game is given up only for a settlement, a seat given up, or a
\* reset that was still pending.
THEOREM GameKept == Spec => GameNotThrownAway
<1>1. IInv /\ [Next]_vars
        => [ phase = "PLAYING" /\ phase' # "PLAYING"
               => \/ phase' = "SETTLEMENT" /\ cardCount'[turn] = 0
                  \/ \E i \in Seat : seat'[i] = Nobody
                  \/ resets' < resets ]_vars
  BY StepEffects DEF Quiet, Abandon, Begin, PlayEffect, PassEffect
<1>2. QED
  BY Invariance, <1>1, PTL DEF Spec, GameNotThrownAway

\* The cards on the table came from the hand of the player whose turn it was.
THEOREM PlaysFromHands == Spec => PlaysComeFromHands
<1>1. IInv /\ [Next]_vars
        => [ phase = "PLAYING" /\ phase' # "LOBBY" /\ hand' # hand
               => /\ hand' = [hand EXCEPT ![turn] = hand'[turn]]
                  /\ table'.owner = turn
                  /\ hand[turn] = hand'[turn] \cup table'.cards ]_vars
  BY StepEffects DEF Quiet, Abandon, Begin, PlayEffect, PassEffect
<1>2. QED
  BY Invariance, <1>1, PTL DEF Spec, PlaysComeFromHands

\* Each of the five is a step of the abstract round, or none.
LEMMA EffectsRefine ==
  ASSUME Quiet \/ Abandon \/ Begin \/ PlayEffect \/ PassEffect
  PROVE  [Round!Next]_(Round!vars)
<1> USE DEF Round!None
<1>1. NoPlay.owner = 4
  BY DEF NoPlay
<1>2. CASE Quiet
  BY <1>2 DEF Quiet, Round!vars
<1>3. CASE Abandon
  BY <1>1, <1>3 DEF Abandon, Round!Next, Round!Stop
<1>4. CASE Begin
  BY <1>1, <1>4 DEF Begin, Round!Next, Round!Deal, Seat
<1>5. CASE PlayEffect
  BY <1>5 DEF PlayEffect, Round!Next, Round!Play, Round!Win, Round!Next4
<1>6. CASE PassEffect
  BY <1>6 DEF PassEffect, Round!Next, Round!Skip, Round!Next4
<1>7. QED
  BY <1>2, <1>3, <1>4, <1>5, <1>6

LEMMA InitRefines == Init => Round!Init
BY DEF Init, Round!Init, Round!None, NoPlay

\* The room implements the abstract round.
THEOREM Refinement == Spec => ImplementsRound
<1>1. IInv /\ [Next]_vars => [Round!Next]_(Round!vars)
  BY StepEffects, EffectsRefine
<1>2. QED
  BY Invariance, InitRefines, <1>1, PTL DEF Spec, ImplementsRound, Round!Spec

----------------------------------------------------------------------------
(* RemoveSpectator. *)

\* Where u is in a list of spectators.
EntriesIn(spec, u) == {k \in DOMAIN spec : spec[k] = u}

\* Whoever is not removed stays in the list, once if he was in it once.
LEMMA OthersStay ==
  ASSUME NEW spec \in Seq(User), NEW u, NEW v, u # v
  PROVE  /\ EntriesIn(spec, u) = {} => EntriesIn(Without(spec, v), u) = {}
         /\ \A k0 : EntriesIn(spec, u) = {k0} => \E k1 : EntriesIn(Without(spec, v), u) = {k1}
<1> DEFINE n == Len(spec)
           Past(k) == \E j \in 1 .. k : spec[j] = v
<1>1. n \in Nat /\ DOMAIN spec = 1 .. n OBVIOUS
<1>2. CASE \A k \in 1 .. n : spec[k] # v BY <1>1, <1>2 DEF Without
<1>3. CASE \E k \in 1 .. n : spec[k] = v
  <2>1. PICK w : w = Without(spec, v) OBVIOUS
  <2>2. w = [k \in 1 .. n - 1 |-> IF Past(k) THEN spec[k + 1] ELSE spec[k]]
    BY <1>1, <1>3, <2>1 DEF Without
  <2>3. DOMAIN w = 1 .. n - 1 /\ \A k \in 1 .. n - 1 : w[k] = IF Past(k) THEN spec[k + 1] ELSE spec[k]
    BY <2>2
  <2>4. ASSUME NEW k \in 1 .. n - 1, w[k] = u
        PROVE  \/ Past(k) /\ k + 1 \in EntriesIn(spec, u)
               \/ ~Past(k) /\ k \in EntriesIn(spec, u)
    BY <1>1, <2>3, <2>4 DEF EntriesIn
  <2>5. ASSUME EntriesIn(spec, u) = {} PROVE EntriesIn(w, u) = {}
    BY <2>3, <2>4, <2>5 DEF EntriesIn
  <2>6. ASSUME NEW k0, EntriesIn(spec, u) = {k0} PROVE \E k1 : EntriesIn(w, u) = {k1}
    <3>1. k0 \in 1 .. n /\ spec[k0] = u BY <1>1, <2>6 DEF EntriesIn
    <3>2. CASE Past(k0)
      <4>1. PICK j \in 1 .. k0 : spec[j] = v BY <3>2
      <4>2. j # k0 BY <3>1, <4>1
      <4>3. k0 - 1 \in 1 .. n - 1 /\ j \in 1 .. k0 - 1 /\ (k0 - 1) + 1 = k0 BY <1>1, <3>1, <4>1, <4>2
      <4>4. Past(k0 - 1) BY <4>1, <4>3
      <4>5. w[k0 - 1] = u BY <2>3, <3>1, <4>3, <4>4
      <4>6. ASSUME NEW k \in 1 .. n - 1, w[k] = u PROVE k = k0 - 1
        <5>1. CASE Past(k) /\ k + 1 \in EntriesIn(spec, u) BY <1>1, <2>6, <3>1, <5>1
        <5>2. CASE ~Past(k) /\ k \in EntriesIn(spec, u) BY <2>6, <3>2, <5>2
        <5> QED BY <2>4, <4>6, <5>1, <5>2
      <4>7. EntriesIn(w, u) = {k0 - 1} BY <2>3, <4>3, <4>5, <4>6 DEF EntriesIn
      <4> QED BY <4>7
    <3>3. CASE ~Past(k0)
      <4>1. PICK j \in 1 .. n : spec[j] = v BY <1>3
      <4>2. k0 < j BY <1>1, <3>1, <3>3, <4>1
      <4>3. k0 \in 1 .. n - 1 BY <1>1, <3>1, <4>1, <4>2
      <4>4. w[k0] = u BY <2>3, <3>1, <3>3, <4>3
      <4>5. ASSUME NEW k \in 1 .. n - 1, w[k] = u PROVE k = k0
        <5>1. CASE Past(k) /\ k + 1 \in EntriesIn(spec, u)
          <6>1. k + 1 = k0 BY <2>6, <5>1
          <6>2. PICK i \in 1 .. k : spec[i] = v BY <5>1
          <6>3. i \in 1 .. k0 BY <1>1, <6>1, <6>2
          <6> QED BY <3>3, <6>2, <6>3
        <5>2. CASE ~Past(k) /\ k \in EntriesIn(spec, u) BY <2>6, <5>2
        <5> QED BY <2>4, <4>5, <5>1, <5>2
      <4>6. EntriesIn(w, u) = {k0} BY <2>3, <4>3, <4>4, <4>5 DEF EntriesIn
      <4> QED BY <4>6
    <3> QED BY <3>2, <3>3
  <2> QED BY <2>1, <2>5, <2>6
<1> QED BY <1>1, <1>2, <1>3

\* Whoever was in it once is gone.
LEMMA OnceIsGone ==
  ASSUME NEW spec \in Seq(User), NEW u,
         EntriesIn(spec, u) = {} \/ \E k0 : EntriesIn(spec, u) = {k0}
  PROVE  EntriesIn(Without(spec, u), u) = {}
<1> DEFINE n == Len(spec)
           Past(k) == \E j \in 1 .. k : spec[j] = u
<1>1. n \in Nat /\ DOMAIN spec = 1 .. n OBVIOUS
<1>2. CASE EntriesIn(spec, u) = {} BY <1>1, <1>2 DEF Without, EntriesIn
<1>3. CASE \E k0 : EntriesIn(spec, u) = {k0}
  <2>1. PICK k0 : EntriesIn(spec, u) = {k0} BY <1>3
  <2>2. k0 \in 1 .. n /\ spec[k0] = u /\ \A k \in 1 .. n : spec[k] = u => k = k0
    BY <1>1, <2>1 DEF EntriesIn
  <2>3. PICK w : w = Without(spec, u) OBVIOUS
  <2>4. w = [k \in 1 .. n - 1 |-> IF Past(k) THEN spec[k + 1] ELSE spec[k]]
    BY <1>1, <2>2, <2>3 DEF Without
  <2>5. DOMAIN w = 1 .. n - 1 /\ \A k \in 1 .. n - 1 : w[k] = IF Past(k) THEN spec[k + 1] ELSE spec[k]
    BY <2>4
  <2>6. ASSUME NEW k \in 1 .. n - 1 PROVE w[k] # u
    <3>1. k \in 1 .. n /\ k + 1 \in 1 .. n BY <1>1
    <3>2. CASE Past(k)
      <4>1. k0 <= k BY <1>1, <2>2, <3>1, <3>2
      <4>2. k + 1 # k0 BY <2>2, <3>1, <4>1
      <4> QED BY <2>2, <2>5, <3>1, <3>2, <4>2
    <3>3. CASE ~Past(k)
      <4>1. k \in 1 .. k BY <3>1
      <4>2. spec[k] # u BY <3>3, <4>1
      <4> QED BY <2>5, <3>3, <4>2
    <3> QED BY <3>2, <3>3
  <2> QED BY <2>3, <2>5, <2>6 DEF EntriesIn
<1> QED BY <1>2, <1>3
----------------------------------------------------------------------------
(* The places of a user. *)

Absent(u) == SeatsOf(u) = {} /\ SpectatorEntries(u) = {}
Once(u) ==
  \/ (\E i : SeatsOf(u) = {i}) /\ SpectatorEntries(u) = {}
  \/ SeatsOf(u) = {} /\ \E k : SpectatorEntries(u) = {k}

OnePlace(c) == IF inRoom[c] THEN Once(UserOf[c]) ELSE Absent(UserOf[c])

\* One place, or none, says more than a number; and the matchmaker seats only
\* who waits.
MInv ==
  /\ \A c \in Client : PlacedByHand(c) => OnePlace(c)
  /\ pick # NoPick => pick.client \in Waiters

LEMMA TakeSeatEffect ==
  ASSUME IInv, EmptySeats # {}, NEW v \in User, TakeSeat(v)
  PROVE  /\ \E i \in Seat : SeatsOf(v)' = SeatsOf(v) \cup {i}
         /\ \A u \in User \ {v} : SeatsOf(u)' = SeatsOf(u)
<1> DEFINE i == Lowest(EmptySeats)
<1>1. i \in Seat /\ seat[i] = Nobody BY LowestSeat DEF EmptySeats
<1>2. seat' = [seat EXCEPT ![i] = v] /\ seat \in [Seat -> User \cup {Nobody}]
  BY DEF TakeSeat, IInv, TypeOK, RoomTypeOK
<1> HIDE DEF i
<1>3. SeatsOf(v)' = SeatsOf(v) \cup {i} BY <1>1, <1>2 DEF SeatsOf
<1>4. \A u \in User \ {v} : SeatsOf(u)' = SeatsOf(u)
  <2>1. \A u \in User : u # Nobody BY UserAssumption
  <2> QED BY <1>1, <1>2, <2>1 DEF SeatsOf
<1> QED BY <1>1, <1>3, <1>4

\* HandlePlayerLeave takes the user's one place, and nobody else's.
LEMMA LeaverIsAbsent ==
  ASSUME IInv, NEW u \in User, Once(u) \/ Absent(u), HandlePlayerLeave(u)
  PROVE  Absent(u)'
<1>1. seat \in [Seat -> User \cup {Nobody}] /\ spectators \in Seq(User) /\ u # Nobody
  BY UserAssumption DEF IInv, TypeOK, RoomTypeOK
<1>2. CASE SeatsOf(u) = {}
  <2>1. seat' = seat /\ spectators' = Without(spectators, u)
    BY <1>2 DEF HandlePlayerLeave, playerVars
  <2>2. EntriesIn(spectators, u) = {} \/ \E k : EntriesIn(spectators, u) = {k}
    BY DEF Once, Absent, SpectatorEntries, EntriesIn
  <2>3. EntriesIn(spectators', u) = {} BY <1>1, <2>1, <2>2, OnceIsGone
  <2> QED BY <1>2, <2>1, <2>3 DEF Absent, SeatsOf, SpectatorEntries, EntriesIn
<1>3. CASE SeatsOf(u) # {}
  <2>1. PICK i \in SeatsOf(u) : Vacate(i) BY <1>3 DEF HandlePlayerLeave
  <2>2. seat' = [seat EXCEPT ![i] = Nobody] /\ spectators' = spectators BY <2>1 DEF Vacate
  <2>3. SeatsOf(u) = {i} /\ SpectatorEntries(u) = {} BY <1>3, <2>1 DEF Once, Absent
  <2>4. SeatsOf(u)' = {} BY <1>1, <2>2, <2>3 DEF SeatsOf
  <2> QED BY <2>2, <2>3, <2>4 DEF Absent, SpectatorEntries
<1> QED BY <1>2, <1>3

LEMMA OthersKeepPlaces ==
  ASSUME IInv, NEW u \in User, NEW v \in User, u # v, HandlePlayerLeave(v)
  PROVE  (Once(u) => Once(u)') /\ (Absent(u) => Absent(u)')
<1>1. seat \in [Seat -> User \cup {Nobody}] /\ spectators \in Seq(User) /\ u # Nobody
  BY UserAssumption DEF IInv, TypeOK, RoomTypeOK
<1>2. CASE SeatsOf(v) = {}
  <2>1. seat' = seat /\ spectators' = Without(spectators, v)
    BY <1>2 DEF HandlePlayerLeave, playerVars
  <2>2. /\ EntriesIn(spectators, u) = {} => EntriesIn(Without(spectators, v), u) = {}
        /\ \A k0 : EntriesIn(spectators, u) = {k0} =>
             \E k1 : EntriesIn(Without(spectators, v), u) = {k1}
    BY <1>1, OthersStay
  <2>3. SeatsOf(u)' = SeatsOf(u) BY <2>1 DEF SeatsOf
  <2>4. SpectatorEntries(u) = EntriesIn(spectators, u) /\ SpectatorEntries(u)' = EntriesIn(Without(spectators, v), u)
    BY <2>1 DEF SpectatorEntries, EntriesIn
  <2> QED BY <2>2, <2>3, <2>4 DEF Once, Absent
<1>3. CASE SeatsOf(v) # {}
  <2>1. PICK i \in SeatsOf(v) : Vacate(i) BY <1>3 DEF HandlePlayerLeave
  <2>2. seat' = [seat EXCEPT ![i] = Nobody] /\ spectators' = spectators BY <2>1 DEF Vacate
  <2>3. seat[i] = v /\ i \in Seat BY <2>1 DEF SeatsOf
  <2>4. SeatsOf(u)' = SeatsOf(u) BY <1>1, <2>2, <2>3 DEF SeatsOf
  <2>5. SpectatorEntries(u)' = SpectatorEntries(u) BY <2>2 DEF SpectatorEntries
  <2> QED BY <2>4, <2>5 DEF Once, Absent
<1> QED BY <1>2, <1>3

----------------------------------------------------------------------------
(* The steps. *)

LEMMA JoinKeepsPlaces ==
  ASSUME IInv, MInv, NEW d \in Client, HandleJoinRoom(d), NEW c \in Client, PlacedByHand(c)
  PROVE  OnePlace(c)'
<1> DEFINE u == UserOf[c]
<1>1. /\ u \in User /\ UserOf[d] \in User /\ spectators \in Seq(User) /\ OnePlace(c)
      /\ inRoom \in [Client -> BOOLEAN]
  BY UserAssumption DEF IInv, TypeOK, MInv
<1>2. ~inRoom[d] /\ inRoom' = [inRoom EXCEPT ![d] = TRUE] BY DEF HandleJoinRoom
<1>3. CASE EmptySeats # {} /\ TakeSeat(UserOf[d]) /\ spectators' = spectators
  <2>1. SpectatorEntries(u)' = SpectatorEntries(u) BY <1>3 DEF SpectatorEntries
  <2>2. CASE d = c
    <3>1. Absent(u) BY <1>1, <1>2, <2>2 DEF OnePlace
    <3>2. PICK i \in Seat : SeatsOf(u)' = SeatsOf(u) \cup {i} BY <1>1, <1>3, <2>2, TakeSeatEffect
    <3>3. Once(u)' BY <2>1, <3>1, <3>2 DEF Absent, Once
    <3> QED BY <1>1, <1>2, <2>2, <3>3 DEF OnePlace
  <2>3. CASE d # c
    <3>1. u # UserOf[d] BY <2>3 DEF PlacedByHand
    <3>2. SeatsOf(u)' = SeatsOf(u) BY <1>1, <1>3, <3>1, TakeSeatEffect
    <3>3. inRoom'[c] = inRoom[c] BY <1>1, <1>2, <2>3
    <3> QED BY <1>1, <2>1, <3>2, <3>3 DEF OnePlace, Once, Absent
  <2> QED BY <2>2, <2>3
<1>4. CASE spectators' = Append(spectators, UserOf[d]) /\ UNCHANGED playerVars
  <2> DEFINE n == Len(spectators)
  <2>1. SeatsOf(u)' = SeatsOf(u) BY <1>4 DEF SeatsOf, playerVars
  <2>2. /\ n \in Nat /\ DOMAIN spectators = 1 .. n /\ DOMAIN spectators' = 1 .. n + 1
        /\ spectators'[n + 1] = UserOf[d] /\ \A k \in 1 .. n : spectators'[k] = spectators[k]
    BY <1>1, <1>4
  <2>3. CASE d = c
    <3>1. Absent(u) BY <1>1, <1>2, <2>3 DEF OnePlace
    <3>2. SpectatorEntries(u)' = {n + 1} BY <2>2, <2>3, <3>1 DEF Absent, SpectatorEntries
    <3>3. Once(u)' BY <2>1, <3>1, <3>2 DEF Absent, Once
    <3> QED BY <1>1, <1>2, <2>3, <3>3 DEF OnePlace
  <2>4. CASE d # c
    <3>1. u # UserOf[d] BY <2>4 DEF PlacedByHand
    <3>2. SpectatorEntries(u)' = SpectatorEntries(u) BY <2>2, <3>1 DEF SpectatorEntries
    <3>3. inRoom'[c] = inRoom[c] BY <1>1, <1>2, <2>4
    <3> QED BY <1>1, <2>1, <3>2, <3>3 DEF OnePlace, Once, Absent
  <2> QED BY <2>3, <2>4
<1> QED BY <1>3, <1>4 DEF HandleJoinRoom

\* What leave_room and the end of a connection have in common.
LEMMA LeaveKeepsPlaces ==
  ASSUME IInv, MInv, NEW d \in Client, inRoom[d],
         HandlePlayerLeave(UserOf[d]), inRoom' = [inRoom EXCEPT ![d] = FALSE],
         NEW c \in Client, PlacedByHand(c)
  PROVE  OnePlace(c)'
<1>1. /\ UserOf[c] \in User /\ UserOf[d] \in User /\ OnePlace(c) /\ inRoom \in [Client -> BOOLEAN]
  BY UserAssumption DEF IInv, TypeOK, MInv
<1>2. CASE d = c
  <2>1. Absent(UserOf[c])' BY <1>1, <1>2, LeaverIsAbsent DEF OnePlace
  <2> QED BY <1>1, <1>2, <2>1 DEF OnePlace
<1>3. CASE d # c
  <2>1. UserOf[c] # UserOf[d] BY <1>3 DEF PlacedByHand
  <2>2. (Once(UserOf[c]) => Once(UserOf[c])') /\ (Absent(UserOf[c]) => Absent(UserOf[c])')
    BY <1>1, <2>1, OthersKeepPlaces
  <2>3. inRoom'[c] = inRoom[c] BY <1>1, <1>3
  <2> QED BY <1>1, <2>2, <2>3 DEF OnePlace
<1> QED BY <1>2, <1>3

LEMMA MatchKeepsPlaces ==
  ASSUME IInv, MInv, MatchSeat, NEW c \in Client, PlacedByHand(c)
  PROVE  OnePlace(c)'
<1> DEFINE d == pick.client
<1>1. /\ UserOf[c] \in User /\ OnePlace(c) /\ inRoom \in [Client -> BOOLEAN]
      /\ pick # NoPick /\ d \in Waiters /\ d \in Client /\ UserOf[d] \in User
  BY UserAssumption DEF IInv, TypeOK, MInv, MatchSeat
<1>2. d # c /\ UserOf[c] # UserOf[d] BY <1>1 DEF PlacedByHand
<1>3. SpectatorEntries(UserOf[c])' = SpectatorEntries(UserOf[c]) /\ inRoom'[c] = inRoom[c]
  BY <1>1, <1>2 DEF MatchSeat, SpectatorEntries
<1>4. SeatsOf(UserOf[c])' = SeatsOf(UserOf[c])
  <2>1. CASE EmptySeats = {} BY <2>1 DEF MatchSeat, playerVars, SeatsOf
  <2>2. CASE EmptySeats # {} BY <1>1, <1>2, <2>2, TakeSeatEffect DEF MatchSeat
  <2> QED BY <2>1, <2>2
<1> QED BY <1>1, <1>3, <1>4 DEF OnePlace, Once, Absent

LEMMA PlacesStep == IInv /\ MInv /\ [Next]_vars => MInv'
<1> SUFFICES ASSUME IInv, MInv, [Next]_vars PROVE MInv' OBVIOUS
<1>1. ASSUME UNCHANGED <<seat, spectators, inRoom>>, NEW c \in Client, PlacedByHand(c)
      PROVE  OnePlace(c)'
  BY <1>1 DEF MInv, OnePlace, Once, Absent, SeatsOf, SpectatorEntries
<1>2. ASSUME NEW c \in Client, PlacedByHand(c) PROVE OnePlace(c)'
  <2>1. ASSUME NEW d \in Client, HandleLeaveRoom(d) PROVE OnePlace(c)'
    BY <1>2, <2>1, LeaveKeepsPlaces DEF HandleLeaveRoom
  <2>2. ASSUME NEW d \in Client, Unregister(d) PROVE OnePlace(c)'
    <3>1. CASE inRoom[d] BY <1>2, <2>2, <3>1, LeaveKeepsPlaces DEF Unregister
    <3>2. CASE ~inRoom[d]
      <4>1. inRoom' = inRoom BY <2>2, <3>2 DEF Unregister, IInv, TypeOK
      <4> QED BY <1>1, <1>2, <2>2, <3>2, <4>1 DEF Unregister, playerVars
    <3> QED BY <3>1, <3>2
  <2>3. ASSUME NEW d \in Client,
               \/ MatchPick(d) \/ HandleReady(d) \/ HandlePassTurn(d)
               \/ \E list \in Lists : HandlePlayCards(d, list)
        PROVE  UNCHANGED <<seat, spectators, inRoom>>
    BY <2>3 DEF MatchPick, HandleReady, HandlePassTurn, HandlePlayCards, playerVars
  <2>4. ASSUME TimerExpires \/ ResetRoom \/ UNCHANGED vars \/ \E i \in Seat : TurnTimeout(i)
        PROVE  UNCHANGED <<seat, spectators, inRoom>>
    BY <2>4 DEF TimerExpires, ResetRoom, TurnTimeout, vars, playerVars
  <2> QED BY <1>1, <1>2, <2>1, <2>2, <2>3, <2>4, JoinKeepsPlaces, MatchKeepsPlaces DEF Next
<1>3. pick' # NoPick => pick'.client \in Waiters
  <2>1. CASE pick' = pick \/ pick' = NoPick BY <2>1 DEF MInv
  <2>2. ASSUME NEW d \in Client, MatchPick(d) PROVE pick' # NoPick => pick'.client \in Waiters
    BY <2>2 DEF MatchPick
  <2>3. ASSUME NEW d \in Client, Unregister(d) PROVE pick' # NoPick => pick'.client \in Waiters
    <3>1. CASE pick.client = d
      <4>1. pick # NoPick BY <3>1, UserAssumption DEF NoPick
      <4>2. pick \in [client : Client, live : BOOLEAN] BY <4>1 DEF IInv, TypeOK
      <4>3. pick'.client = pick.client BY <2>3, <3>1, <4>2 DEF Unregister
      <4> QED BY <4>1, <4>3 DEF MInv
    <3>2. CASE pick.client # d BY <2>1, <2>3, <3>2 DEF Unregister
    <3> QED BY <3>1, <3>2
  <2>4. ASSUME NEW d \in Client,
               \/ HandleJoinRoom(d) \/ HandleLeaveRoom(d) \/ HandleReady(d) \/ HandlePassTurn(d)
               \/ \E list \in Lists : HandlePlayCards(d, list)
        PROVE  pick' = pick
    BY <2>4 DEF HandleJoinRoom, HandleLeaveRoom, HandleReady, HandlePassTurn, HandlePlayCards
  <2>5. ASSUME \/ TimerExpires \/ ResetRoom \/ UNCHANGED vars \/ MatchSeat
               \/ \E i \in Seat : TurnTimeout(i)
        PROVE  pick' \in {pick, NoPick}
    BY <2>5 DEF TimerExpires, ResetRoom, TurnTimeout, MatchSeat, vars
  <2> QED BY <2>1, <2>2, <2>3, <2>4, <2>5 DEF Next
<1> QED BY <1>2, <1>3 DEF MInv, PlacedByHand

LEMMA PlacesInit == Init => MInv
<1> SUFFICES ASSUME Init PROVE MInv OBVIOUS
<1>1. \A c \in Client : SeatsOf(UserOf[c]) = {} /\ SpectatorEntries(UserOf[c]) = {} /\ ~inRoom[c]
  BY UserAssumption DEF Init, SeatsOf, SpectatorEntries
<1> QED BY <1>1 DEF MInv, OnePlace, Absent, Init

LEMMA PlacesAgree ==
  ASSUME MInv
  PROVE  MembershipAgrees
<1> SUFFICES ASSUME NEW c \in Client, PlacedByHand(c)
             PROVE  Places(UserOf[c]) = IF inRoom[c] THEN 1 ELSE 0
  BY DEF MembershipAgrees
<1>1. OnePlace(c) BY DEF MInv
<1>2. Cardinality({}) = 0 BY FS_EmptySet
<1>3. \A x : Cardinality({x}) = 1 BY FS_Singleton
<1>4. CASE Once(UserOf[c]) /\ inRoom[c]
  <2>1. CASE (\E i : SeatsOf(UserOf[c]) = {i}) /\ SpectatorEntries(UserOf[c]) = {}
    <3>1. Cardinality(SeatsOf(UserOf[c])) = 1 BY <1>3, <2>1
    <3> QED BY <1>2, <1>4, <2>1, <3>1 DEF Places
  <2>2. CASE SeatsOf(UserOf[c]) = {} /\ \E k : SpectatorEntries(UserOf[c]) = {k}
    <3>1. Cardinality(SpectatorEntries(UserOf[c])) = 1 BY <1>3, <2>2
    <3> QED BY <1>2, <1>4, <2>2, <3>1 DEF Places
  <2> QED BY <1>4, <2>1, <2>2 DEF Once
<1>5. CASE Absent(UserOf[c]) /\ ~inRoom[c] BY <1>2, <1>5 DEF Absent, Places
<1> QED BY <1>1, <1>4, <1>5 DEF OnePlace

\* A client that is in the room has one place there, and one that is not has
\* none (internal/game/engine.go, internal/ws/hub.go): whatever happens to the
\* others, to the game and to the connection, and for every number of clients.
THEOREM MembershipRight == Spec => []MembershipAgrees
BY PlacesInit, PlacesStep, PlacesAgree, Invariance, PTL DEF Spec
=============================================================================
