------------------------------- MODULE Engine -------------------------------
(***************************************************************************)
(* One room of the game server and everything that acts on it: the         *)
(* message handlers of internal/game/engine.go, which the hub goroutine    *)
(* runs one at a time; the turn timer's callback and the goroutine endGame *)
(* leaves behind, which run beside it; HandlePlayerLeave of                *)
(* internal/ws/hub.go; and the seat the matchmaking goroutine hands out    *)
(* (internal/matchmaking/service.go).  Each holds the room's lock from its *)
(* first read of the room to its last write, so each is one action.        *)
(*                                                                         *)
(* Players[i] of the code is split into seat, ready, hand and cardCount; a *)
(* nil entry is a seat held by Nobody with zero values in the others.      *)
(* Clients are connections; UserOf says which user a connection            *)
(* authenticated as, and two connections may be the same user's.           *)
(***************************************************************************)
EXTENDS Settlement

CONSTANTS
  Client,          \* connections
  User,            \* users
  UserOf,          \* the user of each connection
  Nobody,          \* in place of a user or a client: none
  Deals,           \* the deals that DealCards may return
  Lists,           \* the lists of cards a play_cards message may carry
  MaxSpectators,   \* 3 in the program
  Waiters,         \* the clients that may be in the matchmaker's wait lists
  MaxExpired,      \* bound: timer callbacks waiting for the room's lock
  MaxResets        \* bound: reset goroutines sleeping at the same time

ASSUME UserAssumption ==
  /\ UserOf \in [Client -> User]
  /\ Nobody \notin User \cup Client
  /\ Waiters \subseteq Client

ASSUME DealAssumption ==
  \A d \in Deals :
    /\ d \in [Seat -> SUBSET Card]
    /\ \A i \in Seat : Cardinality(d[i]) = HandSize
    /\ \A i, j \in Seat : i # j => d[i] \cap d[j] = {}
    /\ \E i \in Seat : ThreeOfSpades \in d[i]

ASSUME ListAssumption == Lists \subseteq Seq(Card)

ASSUME BoundAssumption ==
  /\ MaxSpectators \in Nat
  /\ MaxExpired \in Nat \ {0}
  /\ MaxResets \in Nat \ {0}

Phase == {"LOBBY", "PLAYING", "SETTLEMENT"}
NoTimer == 4
NoWinner == -1
NoPick == [client |-> Nobody, live |-> FALSE]

VARIABLES
  phase,       \* room.Phase
  seat,        \* the user of room.Players[i]
  ready,       \* .IsReady
  hand,        \* .Hand
  cardCount,   \* .CardCount
  spectators,  \* room.Spectators
  turn,        \* room.CurrentTurn
  table,       \* room.TablePlay
  passCount,   \* room.PassCount
  winner,      \* room.Winner
  inRoom,      \* inRoom[c]: client c's RoomID is this room
  timer,       \* the seat whose turn timer is running
  expired,     \* expired[i]: callbacks of seat i's timers that have fired and
               \* are waiting for the room's lock
  resets,      \* reset goroutines of finished games that still sleep
  pick         \* the client the matchmaker has found to be in no room and is
               \* about to seat; live says its connection still exists

playerVars == <<seat, ready, hand, cardCount>>
roundVars  == <<turn, table, passCount, winner>>
otherVars  == <<timer, expired, resets>>
vars == <<phase, playerVars, spectators, roundVars, inRoom, otherVars, pick>>

Init ==
  /\ phase = "LOBBY"
  /\ seat = [i \in Seat |-> Nobody]
  /\ ready = [i \in Seat |-> FALSE]
  /\ hand = [i \in Seat |-> {}]
  /\ cardCount = [i \in Seat |-> 0]
  /\ spectators = << >>
  /\ turn = 0 /\ table = NoPlay /\ passCount = 0 /\ winner = NoWinner
  /\ inRoom = [c \in Client |-> FALSE]
  /\ timer = NoTimer /\ expired = [i \in Seat |-> 0] /\ resets = 0
  /\ pick = NoPick

----------------------------------------------------------------------------
(* Helpers of models/room.go and of the matchmaker. *)

EmptySeats == {i \in Seat : seat[i] = Nobody}
SeatsOf(u) == {i \in Seat : seat[i] = u}
Lowest(S) == CHOOSE i \in S : \A j \in S : i <= j

\* FindPlayerByUserID: the user's lowest seat.
HoldsTurn(c) == SeatsOf(UserOf[c]) # {} /\ Lowest(SeatsOf(UserOf[c])) = turn

\* A new Player in the lowest empty seat.
TakeSeat(u) ==
  LET i == Lowest(EmptySeats) IN
  /\ seat' = [seat EXCEPT ![i] = u]
  /\ ready' = [ready EXCEPT ![i] = FALSE]
  /\ hand' = [hand EXCEPT ![i] = {}]
  /\ cardCount' = [cardCount EXCEPT ![i] = 0]

\* RemoveSpectator drops the first entry of the user, if there is one.
Without(spec, u) ==
  IF \E k \in DOMAIN spec : spec[k] = u
  THEN [k \in 1 .. Len(spec) - 1 |->
          IF \E j \in 1..k : spec[j] = u THEN spec[k + 1] ELSE spec[k]]
  ELSE spec

----------------------------------------------------------------------------
(* Coming and going. *)

HandleJoinRoom(c) ==
  /\ ~inRoom[c]
  /\ \/ /\ phase = "LOBBY" /\ EmptySeats # {}
        /\ TakeSeat(UserOf[c])
        /\ UNCHANGED spectators
     \/ /\ phase # "LOBBY" \/ EmptySeats = {}
        /\ Len(spectators) < MaxSpectators
        /\ spectators' = Append(spectators, UserOf[c])
        /\ UNCHANGED playerVars
  /\ inRoom' = [inRoom EXCEPT ![c] = TRUE]
  /\ UNCHANGED <<phase, roundVars, otherVars, pick>>

\* HandlePlayerLeave: a seat that is given up ends any game in the room.  It
\* leaves the turn timer, the turn and the winner as they are.
Vacate(i) ==
  /\ seat' = [seat EXCEPT ![i] = Nobody]
  /\ UNCHANGED spectators
  /\ IF phase = "LOBBY"
     THEN /\ ready' = [ready EXCEPT ![i] = FALSE]
          /\ hand' = [hand EXCEPT ![i] = {}]
          /\ cardCount' = [cardCount EXCEPT ![i] = 0]
          /\ UNCHANGED <<phase, table, passCount>>
     ELSE /\ phase' = "LOBBY"
          /\ table' = NoPlay
          /\ passCount' = 0
          /\ ready' = [j \in Seat |-> FALSE]
          /\ hand' = [j \in Seat |-> {}]
          /\ cardCount' = [j \in Seat |-> 0]

\* Mistake: a spectator that leaves ends the game, too.
AnyoneLeaves(u) ==
  /\ \/ \E i \in SeatsOf(u) : i = Lowest(SeatsOf(u)) /\ Vacate(i)
     \/ /\ SeatsOf(u) = {}
        /\ spectators' = Without(spectators, u)
        /\ phase' = "LOBBY" /\ table' = NoPlay /\ passCount' = 0
        /\ ready' = [j \in Seat |-> FALSE]
        /\ hand' = [j \in Seat |-> {}]
        /\ cardCount' = [j \in Seat |-> 0]
        /\ UNCHANGED seat
  /\ UNCHANGED <<turn, winner, otherVars>>

HandlePlayerLeave(u) ==
  /\ \/ \E i \in SeatsOf(u) : i = Lowest(SeatsOf(u)) /\ Vacate(i)
     \/ /\ SeatsOf(u) = {}
        /\ spectators' = Without(spectators, u)
        /\ UNCHANGED <<phase, playerVars, table, passCount>>
  /\ UNCHANGED <<turn, winner, otherVars>>

\* Mistake: the client's RoomID is not reset.
LeaveWithoutSetRoom(c) ==
  /\ inRoom[c]
  /\ HandlePlayerLeave(UserOf[c])
  /\ UNCHANGED <<inRoom, pick>>

HandleLeaveRoom(c) ==
  /\ inRoom[c]
  /\ inRoom' = [inRoom EXCEPT ![c] = FALSE]
  /\ HandlePlayerLeave(UserOf[c])
  /\ UNCHANGED pick

\* The hub learns that the connection is gone.  The user's next connection is
\* a new Client in no room; what the matchmaker may hold is the old one.
Unregister(c) ==
  /\ inRoom[c] \/ pick.client = c
  /\ IF inRoom[c]
     THEN HandlePlayerLeave(UserOf[c])
     ELSE UNCHANGED <<phase, playerVars, spectators, roundVars, otherVars>>
  /\ inRoom' = [inRoom EXCEPT ![c] = FALSE]
  /\ pick' = IF pick.client = c THEN [pick EXCEPT !.live = FALSE] ELSE pick

\* processWaitLists reads the client's RoomID ...
MatchPick(c) ==
  /\ c \in Waiters /\ pick = NoPick /\ ~inRoom[c]
  /\ pick' = [client |-> c, live |-> TRUE]
  /\ UNCHANGED <<phase, playerVars, spectators, roundVars, inRoom, otherVars>>

\* ... and then, under the room's lock, looks for a seat, not at the phase.
MatchSeat ==
  /\ pick # NoPick
  /\ IF EmptySeats = {}
     THEN UNCHANGED <<playerVars, inRoom>>
     ELSE /\ TakeSeat(UserOf[pick.client])
          /\ inRoom' = IF pick.live THEN [inRoom EXCEPT ![pick.client] = TRUE]
                                    ELSE inRoom
  /\ pick' = NoPick
  /\ UNCHANGED <<phase, spectators, roundVars, otherVars>>

----------------------------------------------------------------------------
(* Starting a game. *)

\* Mistake: PlayerCount() is not looked at.
AllPresentReady(r) == \A i \in Seat : seat[i] = Nobody \/ r[i]

AllPlayersReady(r) == \A i \in Seat : seat[i] # Nobody /\ r[i]

\* startTurnTimer stops the room's running timer, if any, and starts another.
StartGame ==
  \E deal \in Deals :
    /\ phase' = "PLAYING"
    /\ hand' = deal
    /\ cardCount' = [i \in Seat |-> HandSize]
    /\ ready' = [i \in Seat |-> FALSE]
    /\ turn' = CHOOSE i \in Seat : ThreeOfSpades \in deal[i]
    /\ table' = NoPlay /\ passCount' = 0 /\ winner' = NoWinner
    /\ timer' = turn'

HandleReady(c) ==
  LET i == Lowest(SeatsOf(UserOf[c]))
      toggled == [ready EXCEPT ![i] = ~ready[i]]
  IN
  /\ inRoom[c] /\ phase = "LOBBY" /\ SeatsOf(UserOf[c]) # {}
  /\ IF AllPlayersReady(toggled)
     THEN StartGame
     ELSE ready' = toggled /\ UNCHANGED <<phase, hand, cardCount, roundVars, timer>>
  /\ UNCHANGED <<seat, spectators, inRoom, expired, resets, pick>>

----------------------------------------------------------------------------
(* Playing.  The operators below take the table, the passes and the card   *)
(* counts as the handler has left them.                                    *)

\* Mistake: the turn goes round the other way.
PreviousTurn(counts) == (turn + 3) % 4

\* advanceTurn's loop tries the four seats after turn and gives up on the
\* next one.
NextTurn(counts) ==
  LET After(k) == (turn + k) % 4
      Playable(k) == seat[After(k)] # Nobody /\ counts[After(k)] > 0
  IN  IF \E k \in 1..4 : Playable(k)
      THEN After(Lowest({k \in 1..4 : Playable(k)}))
      ELSE After(5)

\* Mistake: no timer for the next turn.
AdvanceTurnUntimed(t, passes, counts) ==
  LET next == NextTurn(counts)
      back == t # NoPlay /\ t.owner = next
  IN
  /\ turn' = next
  /\ table' = IF back THEN NoPlay ELSE t
  /\ passCount' = IF back THEN 0 ELSE passes
  /\ timer' = NoTimer
  /\ UNCHANGED <<phase, winner, resets>>

AdvanceTurn(t, passes, counts) ==
  LET next == NextTurn(counts)
      back == t # NoPlay /\ t.owner = next
  IN
  /\ turn' = next
  /\ table' = IF back THEN NoPlay ELSE t
  /\ passCount' = IF back THEN 0 ELSE passes
  /\ timer' = next
  /\ UNCHANGED <<phase, winner, resets>>

\* Mistake: the seat after the winner's is announced.
EndGameForNext(t, counts) ==
  /\ resets < MaxResets
  /\ phase' = "SETTLEMENT" /\ winner' = NextTurn(counts)
  /\ table' = t /\ passCount' = 0 /\ timer' = NoTimer
  /\ resets' = resets + 1
  /\ UNCHANGED turn

\* Mistake: nothing is started that resets the room.
EndGameForGood(t, counts) ==
  /\ phase' = "SETTLEMENT"
  /\ winner' = Lowest({i \in Seat : seat[i] # Nobody /\ counts[i] = 0})
  /\ table' = t /\ passCount' = 0 /\ timer' = NoTimer
  /\ UNCHANGED <<turn, resets>>

EndGame(t, counts) ==
  /\ resets < MaxResets
  /\ phase' = "SETTLEMENT"
  /\ winner' = Lowest({i \in Seat : seat[i] # Nobody /\ counts[i] = 0})
  /\ table' = t /\ passCount' = 0 /\ timer' = NoTimer
  /\ resets' = resets + 1
  /\ UNCHANGED turn

HandlePlayCards(c, list) ==
  LET cards == {list[k] : k \in DOMAIN list}
      combo == ClassifyCombination(cards)
      left == RemoveCards(hand[turn], cards)
      counts == [cardCount EXCEPT ![turn] = Cardinality(left)]
      play == [owner |-> turn, cards |-> cards, combo |-> combo]
  IN
  /\ inRoom[c] /\ phase = "PLAYING" /\ HoldsTurn(c)
  /\ PlayerOwnsCards(hand[turn], list)
  /\ combo # Invalid
  /\ CanBeat(table, cards, combo)
  /\ hand' = [hand EXCEPT ![turn] = left]
  /\ cardCount' = counts
  /\ IF counts[turn] = 0 THEN EndGame(play, counts)
                         ELSE AdvanceTurn(play, 0, counts)
  /\ UNCHANGED <<seat, ready, spectators, inRoom, expired, pick>>

\* Mistakes: the table is cleared one pass early, one late; a pass is not counted.
PassEarly ==
  LET passes == passCount + 1
  IN  IF passes >= 2 THEN AdvanceTurn(NoPlay, 0, cardCount)
                     ELSE AdvanceTurn(table, passes, cardCount)

PassLate ==
  LET passes == passCount + 1
  IN  IF passes > 3 THEN AdvanceTurn(NoPlay, 0, cardCount)
                    ELSE AdvanceTurn(table, passes, cardCount)

PassUncounted == AdvanceTurn(table, passCount, cardCount)

\* One more pass; the third in a row clears the table.
Pass ==
  LET passes == passCount + 1
  IN  IF passes >= 3 THEN AdvanceTurn(NoPlay, 0, cardCount)
                     ELSE AdvanceTurn(table, passes, cardCount)

HandlePassTurn(c) ==
  /\ inRoom[c] /\ phase = "PLAYING" /\ HoldsTurn(c)
  /\ table # NoPlay /\ table.owner # turn
  /\ Pass
  /\ UNCHANGED <<playerVars, spectators, inRoom, expired, pick>>

----------------------------------------------------------------------------
(* What runs beside the handlers. *)

\* 30 seconds are over: the runtime starts the callback in a goroutine.  From
\* here on Stop() does not stop it.
TimerExpires ==
  /\ timer # NoTimer
  /\ expired[0] + expired[1] + expired[2] + expired[3] < MaxExpired
  /\ expired' = [expired EXCEPT ![timer] = @ + 1]
  /\ timer' = NoTimer
  /\ UNCHANGED <<phase, playerVars, spectators, roundVars, inRoom, resets, pick>>

\* The callback has the lock.
TurnTimeout(i) ==
  /\ expired[i] > 0
  /\ expired' = [expired EXCEPT ![i] = @ - 1]
  /\ IF phase = "PLAYING" /\ turn = i
     THEN Pass
     ELSE UNCHANGED <<phase, roundVars, timer, resets>>
  /\ UNCHANGED <<playerVars, spectators, inRoom, pick>>

\* Mistake: the hands stay.
ResetKeepingHands ==
  /\ resets > 0
  /\ resets' = resets - 1
  /\ phase' = "LOBBY"
  /\ table' = NoPlay /\ passCount' = 0 /\ winner' = NoWinner
  /\ ready' = [i \in Seat |-> FALSE]
  /\ UNCHANGED <<seat, hand, cardCount, spectators, turn, inRoom, timer, expired, pick>>

\* The goroutine of endGame wakes up; it looks at nothing before it writes.
ResetRoom ==
  /\ resets > 0
  /\ resets' = resets - 1
  /\ phase' = "LOBBY"
  /\ table' = NoPlay /\ passCount' = 0 /\ winner' = NoWinner
  /\ ready' = [i \in Seat |-> FALSE]
  /\ hand' = [i \in Seat |-> {}]
  /\ cardCount' = [i \in Seat |-> 0]
  /\ UNCHANGED <<seat, spectators, turn, inRoom, timer, expired, pick>>

Next ==
  \/ \E c \in Client :
       \/ HandleJoinRoom(c)
       \/ HandleLeaveRoom(c)
       \/ Unregister(c)
       \/ MatchPick(c)
       \/ HandleReady(c)
       \/ \E list \in Lists : HandlePlayCards(c, list)
       \/ HandlePassTurn(c)
  \/ MatchSeat
  \/ TimerExpires
  \/ \E i \in Seat : TurnTimeout(i)
  \/ ResetRoom

Spec == Init /\ [][Next]_vars

\* Timers fire, goroutines that were started get to run, and the matchmaker's
\* loop goes on; nobody is obliged to send anything.
Fairness ==
  /\ WF_vars(TimerExpires)
  /\ \A i \in Seat : WF_vars(TurnTimeout(i))
  /\ WF_vars(ResetRoom)

FairSpec == Spec /\ Fairness

----------------------------------------------------------------------------
(* Correctness. *)

RoomTypeOK ==
  /\ phase \in Phase
  /\ seat \in [Seat -> User \cup {Nobody}]
  /\ ready \in [Seat -> BOOLEAN]
  /\ hand \in [Seat -> SUBSET Card]
  /\ cardCount \in [Seat -> Nat]
  /\ turn \in Seat
  /\ table \in TablePlay \cup {NoPlay}
  /\ passCount \in 0..2
  /\ winner \in Seat \cup {NoWinner}
  /\ timer \in Seat \cup {NoTimer}
  /\ expired \in [Seat -> Nat]
  /\ resets \in 0..MaxResets

TypeOK ==
  /\ RoomTypeOK
  /\ spectators \in Seq(User)
  /\ inRoom \in [Client -> BOOLEAN]
  /\ pick \in [client : Client, live : BOOLEAN] \cup {NoPick}

\* A game in progress or being settled has its four players: this is what
\* makes it safe that the matchmaker and the bot manager seat clients without
\* looking at the phase, and that advanceTurn, endGame and the start of a
\* game index Players without looking for nil.
SeatedWhilePlaying ==
  /\ phase # "LOBBY" => \A i \in Seat : seat[i] # Nobody
  /\ phase = "PLAYING" => \A i \in Seat : cardCount[i] > 0

\* The two ways the code has of ending a round agree: the pass counter
\* (PassCount >= 3) and the owner of the play (PlayerIndex == next).  The turn
\* is always as many seats past the owner as passes were counted.
TurnFollowsPlay ==
  phase = "PLAYING" /\ table # NoPlay => turn = (table.owner + passCount + 1) % 4

\* A game never waits for a player without a timer: the turn's timer runs, or
\* a callback that will pass for that seat is about to take the lock.
TurnHasTimer ==
  phase = "PLAYING" =>
    /\ timer \in {turn, NoTimer}
    /\ timer = NoTimer => expired[turn] > 0

\* No card is in two places, and CardCount is what the hand says.
CardsConserved ==
  /\ \A i \in Seat : cardCount[i] = Cardinality(hand[i])
  /\ \A i, j \in Seat : i # j => hand[i] \cap hand[j] = {}
  /\ \A i \in Seat : hand[i] \cap table.cards = {}

\* After a game the winner announced is the one player without cards, and the
\* winning play is still his.
WinnerEmptied ==
  phase = "SETTLEMENT" =>
    /\ winner \in Seat /\ table.owner = winner
    /\ \A i \in Seat : cardCount[i] = 0 <=> i = winner

\* Whichever way a game ended (reset, a player leaving), what is left of it
\* is nothing: no table, no passes, no cards.
CleanLobby ==
  phase = "LOBBY" =>
    /\ table = NoPlay /\ passCount = 0
    /\ \A i \in Seat : hand[i] = {} /\ cardCount[i] = 0

\* A client's RoomID and the room's lists agree: a client that is in the room
\* has exactly one place there, one that is not has none.  This is for clients
\* that leave their placing to join_room and are the only one of their user: a
\* client that waits in the matchmaker's list, too, can get a second seat
\* (MatchSeat does not look at its RoomID again), and a second client of the
\* same user another.
SpectatorEntries(u) == {k \in DOMAIN spectators : spectators[k] = u}
Places(u) == Cardinality(SeatsOf(u)) + Cardinality(SpectatorEntries(u))

PlacedByHand(c) == c \notin Waiters /\ \A d \in Client : UserOf[d] = UserOf[c] => d = c

MembershipAgrees ==
  \A c \in Client : PlacedByHand(c) => Places(UserOf[c]) = IF inRoom[c] THEN 1 ELSE 0

\* README.md:172, "3 consecutive passes = round cleared, last player starts
\* new round": when a round is cleared the turn is at the player whose cards
\* were on the table, and the three others have passed.
RoundGoesToLastPlayer ==
  [][ phase = "PLAYING" /\ phase' = "PLAYING" /\ table # NoPlay /\ table' = NoPlay
        => turn' = table.owner /\ passCount = 2 /\ hand' = hand ]_vars

\* A game ends in a settlement, or because a player gave up his seat, or
\* because a reset of an earlier game was still pending: nothing else, no
\* timer, no other client, throws a running game away.
GameNotThrownAway ==
  [][ phase = "PLAYING" /\ phase' # "PLAYING"
        => \/ phase' = "SETTLEMENT" /\ cardCount'[turn] = 0
           \/ \E i \in Seat : seat'[i] = Nobody
           \/ resets' < resets ]_vars

\* Between two turns of a game only the hand of the player whose turn it was
\* shrinks, and by the cards he now has on the table.
PlaysComeFromHands ==
  [][ phase = "PLAYING" /\ phase' # "LOBBY" /\ hand' # hand
        => /\ hand' = [hand EXCEPT ![turn] = hand'[turn]]
           /\ table'.owner = turn
           /\ hand[turn] = hand'[turn] \cup table'.cards ]_vars

\* README.md:171, "30-second turn timer (auto-pass on timeout)": a turn is
\* passed for the player only when the timer of that very turn has run out.
AutoPassOnlyAfterExpiry ==
  [][ phase = "PLAYING" /\ phase' = "PLAYING" /\ turn' # turn /\ expired' # expired
        => timer # turn ]_vars

\* README.md:180 and :176, the settlement: the winner gets 90% of the pot,
\* the gold that changes hands and the fee add up, and every loser pays the
\* highest penalty that applies to the cards he is left with.
Penalties(cards) ==
  {1} \cup (IF \E c \in cards : RankOf(c) = Two THEN {2} ELSE {})
      \cup (IF Cardinality(cards) = HandSize THEN {3} ELSE {})
      \cup (IF {c \in Card : RankOf(c) = Two} \subseteq cards THEN {4} ELSE {})

SettlementAsDocumented ==
  phase = "SETTLEMENT" =>
    LET Delta(i) == GoldDelta(hand, cardCount, winner, i)
        pot == TotalPot(hand, cardCount, winner)
    IN  /\ 10 * Delta(winner) = 9 * pot
        /\ Delta(0) + Delta(1) + Delta(2) + Delta(3) = -ServerFee(pot)
        /\ \A i \in Seat \ {winner} :
             \E m \in Penalties(hand[i]) :
               Delta(i) = -(Ante * m) /\ \A n \in Penalties(hand[i]) : n <= m

\* The abstract round, read off the room.
Round == INSTANCE Trick WITH
  playing <- (phase = "PLAYING"),
  leader <- table.owner

\* Pass counter, owner check, timeouts, aborts and stale resets together
\* implement the round.
ImplementsRound == Round!Spec

\* However silent the players are, the turn never stays with one of them for
\* ever.
TurnMoves == \A i \in Seat : []<>~(phase = "PLAYING" /\ turn = i)

\* A room does not stay in settlement.
SettlementEnds == []<>(phase # "SETTLEMENT")
=============================================================================
