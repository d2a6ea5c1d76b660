----------------------------- MODULE BotPlayer -----------------------------
(***************************************************************************)
(* A room with bots in it: the engine's room, and for each bot what        *)
(* internal/bot/player.go keeps.  The engine's handlers broadcast into the *)
(* bots' Send channels; each bot has a goroutine that reads its channel, a *)
(* goroutine of its own for every turn it thinks it has and for every      *)
(* "ready" it is going to send, and sends through the hub's Incoming       *)
(* channel.  So what a bot does is late by any number of other steps.      *)
(*                                                                         *)
(* Humans use the engine's actions directly: their channel to the hub is   *)
(* theirs to fill at any moment.  Bots neither leave nor watch.            *)
(***************************************************************************)
EXTENDS Engine, BotStrategy, Bags

CONSTANTS
  Bot,         \* the bots among the clients
  DiffOf       \* the bots' difficulties

\* nextBotID counts down from -1: no bot is anybody else's user.
ASSUME BotAssumption ==
  /\ Bot \subseteq Client
  /\ \A b \in Bot, c \in Client : UserOf[b] = UserOf[c] => b = c
  /\ DiffOf \in [Bot -> Difficulty]

VARIABLES
  inbox,      \* the bots' Send channels
  view,       \* bp.hand
  last,       \* bp.lastTablePlay, NoPlay for nil
  thinking,   \* the tables of the goroutines playTurn has started
  readying,   \* the goroutines that will send "ready"
  queue,      \* the bots' messages in the hub's Incoming channel
  crashed     \* a goroutine has panicked: the process is gone, and no action
              \* can happen any more

botVars == <<inbox, view, last, thinking, readying, queue, crashed>>
allVars == <<vars, botVars>>

Human == Client \ Bot
SeatOf(b) == Lowest(SeatsOf(UserOf[b]))

BotInit ==
  /\ Init
  /\ inbox = [b \in Bot |-> << >>]
  /\ view = [b \in Bot |-> {}]
  /\ last = [b \in Bot |-> NoPlay]
  /\ thinking = [b \in Bot |-> EmptyBag]
  /\ readying = [b \in Bot |-> 0]
  /\ queue = << >> /\ crashed = FALSE

----------------------------------------------------------------------------
(* What the room tells its bots.  room_update says nothing to a bot.       *)

Dealt(cards, first)        == [type |-> "DEALT", cards |-> cards, turn |-> first]
Moved(owner, cards, combo) == [type |-> "MOVE", play |-> [owner |-> owner, cards |-> cards, combo |-> combo]]
Turn(next, clear)          == [type |-> "TURN", turn |-> next, clear |-> clear]
Settled                    == [type |-> "SETTLED"]

\* A pass and a timeout are announced as turn_change, too: without the fields
\* current_turn and table_clear, which decode as 0 and false.
PassNotice == Turn(0, FALSE)

\* To the bots that sit in the room.
Tell(msgs) ==
  inbox' = [b \in Bot |-> IF inRoom[b] THEN inbox[b] \o msgs ELSE inbox[b]]

Deal ==
  inbox' = [b \in Bot |-> IF inRoom[b] THEN Append(inbox[b], Dealt(hand'[SeatOf(b)], turn'))
                                       ELSE inbox[b]]

TurnChanged == Turn(turn', table' = NoPlay)

\* The broadcasts of HandleReady, HandlePlayCards and the two passes.
AfterReady == IF phase' = "PLAYING" THEN Deal ELSE UNCHANGED inbox

AfterPlay(cards) ==
  Tell(<< Moved(turn, cards, ClassifyCombination(cards)),
          IF phase' = "SETTLEMENT" THEN Settled ELSE TurnChanged >>)

AfterPass == Tell(<<PassNotice, TurnChanged>>)

----------------------------------------------------------------------------
(* The hub goroutine, the timers and the humans. *)

RestOfBots == UNCHANGED <<view, last, thinking, readying, queue, crashed>>

HumanReady(c) == ~crashed /\ HandleReady(c) /\ AfterReady /\ RestOfBots
HumanPlay(c, list) ==
  /\ ~crashed /\ HandlePlayCards(c, list)
  /\ AfterPlay({list[k] : k \in DOMAIN list}) /\ RestOfBots
HumanPass(c) == ~crashed /\ HandlePassTurn(c) /\ AfterPass /\ RestOfBots

\* These only broadcast room_update.  A broken connection changes the room as
\* leave_room does.
HumanMove(c) ==
  /\ ~crashed
  /\ HandleJoinRoom(c) \/ HandleLeaveRoom(c)
  /\ UNCHANGED botVars

\* Mistake: a bot that has its seat is seated again.
AddBotAgain(b) ==
  /\ ~crashed /\ EmptySeats # {}
  /\ TakeSeat(UserOf[b])
  /\ inRoom' = [inRoom EXCEPT ![b] = TRUE]
  /\ readying' = [readying EXCEPT ![b] = @ + 1]
  /\ UNCHANGED <<phase, spectators, roundVars, otherVars, pick>>
  /\ UNCHANGED <<inbox, view, last, thinking, queue, crashed>>

\* The manager seats a bot without looking at the phase and starts a
\* goroutine that makes it ready.
AddBot(b) ==
  /\ ~crashed /\ ~inRoom[b] /\ EmptySeats # {}
  /\ TakeSeat(UserOf[b])
  /\ inRoom' = [inRoom EXCEPT ![b] = TRUE]
  /\ readying' = [readying EXCEPT ![b] = @ + 1]
  /\ UNCHANGED <<phase, spectators, roundVars, otherVars, pick>>
  /\ UNCHANGED <<inbox, view, last, thinking, queue, crashed>>

\* Time: a turn has 30 seconds and a settlement 5.  What the bots had been told
\* when either began they have read, and what they were thinking about they
\* have sent, within 3.
Calm ==
  /\ queue = << >>
  /\ \A b \in Bot : inbox[b] = << >> /\ thinking[b] = EmptyBag

Expire == ~crashed /\ Calm /\ TimerExpires /\ UNCHANGED botVars

Reset == ~crashed /\ Calm /\ ResetRoom /\ UNCHANGED botVars

Timeout(i) ==
  /\ ~crashed /\ TurnTimeout(i)
  /\ IF phase = "PLAYING" /\ turn = i THEN AfterPass ELSE UNCHANGED inbox
  /\ RestOfBots

\* The handlers' early returns for a message of a bot.
Refused(m) ==
  LET b == m.client IN
  CASE m.kind = "READY" -> phase # "LOBBY"
    [] m.kind = "PASS"  -> \/ phase # "PLAYING" \/ ~HoldsTurn(b)
                           \/ table = NoPlay \/ table.owner = turn
    [] m.kind = "PLAY"  -> \/ phase # "PLAYING" \/ ~HoldsTurn(b)
                           \/ ~(m.cards \subseteq hand[turn])
                           \/ ClassifyCombination(m.cards) = Invalid
                           \/ ~CanBeat(table, m.cards, ClassifyCombination(m.cards))

\* The hub takes a bot's message from the channel.
Handle ==
  /\ ~crashed /\ queue # << >>
  /\ queue' = Tail(queue)
  /\ LET m == Head(queue) IN
     \/ Refused(m) /\ UNCHANGED <<vars, inbox>>
     \/ ~Refused(m) /\ m.kind = "READY" /\ HandleReady(m.client) /\ AfterReady
     \/ ~Refused(m) /\ m.kind = "PASS" /\ HandlePassTurn(m.client) /\ AfterPass
     \/ /\ ~Refused(m) /\ m.kind = "PLAY"
        /\ HandlePlayCards(m.client, SortCards(m.cards)) /\ AfterPlay(m.cards)
  /\ UNCHANGED <<view, last, thinking, readying, crashed>>

----------------------------------------------------------------------------
(* A bot reads its channel. *)

StartThinking(b, t) ==
  thinking' = [thinking EXCEPT ![b] = @ (+) SetToBag({t})]

OnCardDealt(b, m) ==
  /\ view' = [view EXCEPT ![b] = m.cards]
  /\ IF m.turn = SeatOf(b) THEN StartThinking(b, NoPlay) ELSE UNCHANGED thinking
  /\ UNCHANGED <<last, readying>>

\* Mistake: the bot's own cards stay in its hand.
OnMovePlayedByOthers(b, m) ==
  /\ last' = [last EXCEPT ![b] = m.play]
  /\ UNCHANGED <<view, thinking, readying>>

OnMovePlayed(b, m) ==
  /\ view' = IF m.play.owner = SeatOf(b)
             THEN [view EXCEPT ![b] = RemoveCards(@, m.play.cards)] ELSE view
  /\ last' = [last EXCEPT ![b] = m.play]
  /\ UNCHANGED <<thinking, readying>>

\* Mistake: table_clear is not looked at.
OnTurnChangeBlind(b, m) ==
  /\ IF m.turn = SeatOf(b) THEN StartThinking(b, last[b]) ELSE UNCHANGED thinking
  /\ UNCHANGED <<view, last, readying>>

\* lastTablePlay may be nil, and may be a play of the last round or game.
OnTurnChange(b, m) ==
  /\ IF m.turn = SeatOf(b)
     THEN StartThinking(b, IF m.clear THEN NoPlay ELSE last[b])
     ELSE UNCHANGED thinking
  /\ UNCHANGED <<view, last, readying>>

\* Mistake: two goroutines get the bot ready.
OnSettlementTwice(b) ==
  /\ view' = [view EXCEPT ![b] = {}]
  /\ last' = [last EXCEPT ![b] = NoPlay]
  /\ readying' = [readying EXCEPT ![b] = @ + 2]
  /\ UNCHANGED thinking

OnSettlement(b) ==
  /\ view' = [view EXCEPT ![b] = {}]
  /\ last' = [last EXCEPT ![b] = NoPlay]
  /\ readying' = [readying EXCEPT ![b] = @ + 1]
  /\ UNCHANGED thinking

HandleMessage(b) ==
  /\ ~crashed /\ inbox[b] # << >>
  /\ inbox' = [inbox EXCEPT ![b] = Tail(@)]
  /\ LET m == Head(inbox[b]) IN
     \/ m.type = "DEALT" /\ OnCardDealt(b, m)
     \/ m.type = "MOVE" /\ OnMovePlayed(b, m)
     \/ m.type = "TURN" /\ OnTurnChange(b, m)
     \/ m.type = "SETTLED" /\ OnSettlement(b)
  /\ UNCHANGED <<vars, queue, crashed>>

----------------------------------------------------------------------------
(* The goroutines of a bot. *)

Send(b, kind, cards) ==
  queue' = Append(queue, [client |-> b, kind |-> kind, cards |-> cards])

\* Mistake: a nil Play is sent like any other.
SendAnything(b, play) == Send(b, "PLAY", play.cards)

SendPlay(b, play) == Send(b, IF play = PassTurn THEN "PASS" ELSE "PLAY", play.cards)

\* 1 to 3 seconds are over: the bot chooses from the hand it has by now, for
\* the table it had been told about.
PlayTurn(b) ==
  /\ ~crashed
  /\ \E t \in BagToSet(thinking[b]) :
       /\ thinking' = [thinking EXCEPT ![b] = @ (-) SetToBag({t})]
       /\ \E play \in ChoosePlay(view[b], t, DiffOf[b]) :
            IF play = Panic
            THEN crashed' = TRUE /\ UNCHANGED queue
            ELSE SendPlay(b, play) /\ UNCHANGED crashed
  /\ UNCHANGED <<vars, inbox, view, last, readying>>

\* 8 to 9 seconds after a settlement; the reset of that game takes 5.
SendReady(b) ==
  /\ ~crashed /\ readying[b] > 0 /\ resets = 0
  /\ readying' = [readying EXCEPT ![b] = @ - 1]
  /\ Send(b, "READY", {})
  /\ UNCHANGED <<vars, inbox, view, last, thinking, crashed>>

Background ==
  \/ Expire \/ (\E i \in Seat : Timeout(i)) \/ Reset \/ Handle
  \/ \E b \in Bot : AddBot(b) \/ HandleMessage(b) \/ PlayTurn(b) \/ SendReady(b)

BotNext ==
  \/ Background
  \/ \E c \in Human :
       \/ HumanMove(c) \/ HumanReady(c) \/ HumanPass(c)
       \/ \E list \in Lists : HumanPlay(c, list)

BotSpec == BotInit /\ [][BotNext]_allVars

\* Timers fire and goroutines run.  Background itself being fair would let one
\* goroutine run for ever; each is fair on its own.
BotFairSpec ==
  /\ BotSpec
  /\ WF_allVars(Expire) /\ WF_allVars(Reset) /\ WF_allVars(Handle)
  /\ \A i \in Seat : WF_allVars(Timeout(i))
  /\ \A b \in Bot :
       /\ WF_allVars(AddBot(b)) /\ WF_allVars(HandleMessage(b))
       /\ WF_allVars(PlayTurn(b)) /\ WF_allVars(SendReady(b))

----------------------------------------------------------------------------
(* Correctness. *)

BotTypeOK ==
  /\ view \in [Bot -> SUBSET Card]
  /\ last \in [Bot -> TablePlay \cup {NoPlay}]
  /\ readying \in [Bot -> Nat] /\ crashed \in BOOLEAN
  /\ \A b \in Bot : BagToSet(thinking[b]) \subseteq TablePlay \cup {NoPlay}
  /\ \A k \in DOMAIN queue :
       /\ queue[k].client \in Bot /\ queue[k].kind \in {"READY", "PASS", "PLAY"}
       /\ queue[k].kind = "PLAY" <=> queue[k].cards # {}

\* The bot never asks for its hand: it is dealt one and keeps count of what it
\* has played.  When it has read its channel it holds what the server says;
\* before, it holds that and the cards of the plays it has not yet read about.
\* (A bot that plays is in the room.)
UnreadPlays(b) ==
  UNION {inbox[b][k].play.cards :
           k \in {j \in DOMAIN inbox[b] : inbox[b][j].type = "MOVE"
                                          /\ inbox[b][j].play.owner = SeatOf(b)}}

BotKnowsItsHand ==
  phase = "PLAYING" =>
    \A b \in Bot :
      inRoom[b] /\ (\A k \in DOMAIN inbox[b] : inbox[b][k].type # "DEALT")
        => view[b] = hand[SeatOf(b)] \cup UnreadPlays(b)

\* "ready" is a toggle (engine.go:149): the bots' goroutines send it blindly,
\* but never so that it takes a bot's readiness back.
ReadyNotWithdrawn ==
  [][ phase = "LOBBY" /\ phase' = "LOBBY" /\ resets' = resets
        => \A b \in Bot, i \in Seat : seat[i] = UserOf[b] /\ ready[i] => ready'[i] ]_allVars

\* To the room a bot is a client like any other, although the manager seats it
\* without the hub and without a look at the phase, its messages come out of a
\* goroutine, and it sends whatever its strategy made of a hand it believes in:
\* every step of a room with bots is a step of the room, in which bots may lay
\* any cards.
RoomWithBots ==
  Init /\ [][Next \/ \E b \in Bot, S \in SUBSET Card : HandlePlayCards(b, SortCards(S))]_vars

\* strategy.go:37, "chooseOpening picks a combination to lead with when the
\* table is clear": it always finds one.
AlwaysFindsAnOpening == ~crashed

\* The panic is one of a game that is over.  While a bot's game runs, it finds a
\* play to lead with whenever its goroutine wakes up, however many steps late:
\* its hand is never empty before it has been dealt the next one.
NoPanicInGame ==
  [][ ~crashed /\ crashed'
        => \E b \in Bot :
             /\ view[b] = {}
             /\ phase # "PLAYING" \/ \E k \in DOMAIN inbox[b] : inbox[b][k].type = "DEALT" ]_allVars

\* A game with a bot in it comes to an end, however silent its humans are.
GameEnds == phase = "PLAYING" ~> phase # "PLAYING" \/ crashed

\* README.md:184, bot rooms have bots "waiting for a human player": in the
\* lobby every bot gets ready, so that one human can start a game.
BotsGetReady ==
  phase = "LOBBY" ~> \/ phase # "LOBBY" \/ crashed
                     \/ \A b \in Bot : \E i \in Seat : seat[i] = UserOf[b] /\ ready[i]
=============================================================================
