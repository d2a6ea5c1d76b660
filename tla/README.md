# Tien Len server: models, checks and proofs

TLA+ specifications of the game server in `backend/` (Go): the rules of Tien
Len Mien Nam, the room and its engine, the matchmaker, the bots and their
manager, connections and the hub, and the locks they share. TLC checks them on
small instances; TLAPS proves, for every instance, all the safety properties of
the rules, the bots' choices, the settlement, the room with and without bots, the
matchmaker, the hub, the locks and the bot manager. References such as `engine.go:525` are to
`backend/internal/game/engine.go` and its siblings.

## The system

One process. The **hub goroutine** (`ws/hub.go`) takes registrations,
unregistrations and messages from channels and runs the engine's handler for
each message to its end. Beside it run, per connection, a reader and a writer
(`ws/client.go`); the **matchmaker's** goroutine; the **bot manager's**
goroutine; per bot a goroutine that reads its channel, one for every turn it
thinks about and one for every "ready" it is going to send; per running turn a
**timer**, whose callback is a goroutine; per finished game a goroutine that
**resets** the room five seconds later; and the HTTP handlers. They share the
rooms (each under its own RWMutex), the registry of clients (under the hub's),
each client's RoomID (under the client's) and the channels.

| Component | State | Operations | Correct when |
|---|---|---|---|
| Cards, rules (`card.go`, `validator.go`) | none | classify, beat, own, remove | they agree with the rules of the README; no card appears or disappears |
| Settlement (`engine.go:373-493`) | none | penalties, pot, fee | the documented amounts, which add up |
| Room (`room.go`), engine (`engine.go`) | Phase, Players, Spectators, CurrentTurn, TablePlay, PassCount, Winner; turnTimers | join, leave, ready, play, pass; timeout; reset | a game has four players, a turn that follows from the table, a timer; rounds go to the last player; nothing is left over in the lobby |
| Matchmaker (`service.go`) | queue, wait lists | request, place | one seat per request, and eventually a seat |
| Bot strategy (`strategy.go`) | none | choose a lead or an answer | the engine accepts it |
| Bot players (`player.go`) | hand, last play, goroutines | react to messages | its view is the server's; games end; it gets ready |
| Bot manager (`manager.go`) | HasBots, WaitingSince, bots | set up rooms, fill rooms | bots come when humans wait, and leave them a seat |
| Hub, clients (`hub.go`, `client.go`) | Clients, Rooms, channels | register, unregister, broadcast, pumps | registry and open channels agree; connections leave no seat behind; nobody waits for ever |
| HTTP handlers, auth, repository, config, `main.go` | users in PostgreSQL | request/answer | not concurrent among themselves |

What is hard: callbacks that outlive what they were started for (timers,
resets, bots' delays); checks made before a lock is taken and used under it;
messages that are late; two copies of one fact (RoomID and seat, CardCount and
Hand, pass counter and owner of the play); the order of the locks. The full
list, with lines and the properties for each, is `hazards` in `PROJECT.json`.

Nothing is persisted about games, so there is no recovery after a crash to
model. Settlements are announced and not booked: `UserRepo.UpdateGold` has no
caller.

## Modules

| Module | Models | Uses |
|---|---|---|
| `Cards` | `card.go`, `validator.go` | |
| `Rules` | README.md:152-170 as a reference definition | `Cards` |
| `Settlement` | penalties and pot of `endGame` | `Cards` |
| `Engine` | one room and everything that acts on it | `Settlement` |
| `Trick` | the abstract round the room implements | |
| `EngineProofs` | theorems about `Engine` | `Engine`, TLAPS |
| `Matchmaking` | `service.go` step by step, beside the hub goroutine | |
| `BotStrategy` | `strategy.go` | `Cards` |
| `BotPlayer` | a room with bots: `player.go`, seating by `manager.go` | `Engine`, `BotStrategy` |
| `Locks` | who takes which lock under which, Go's RWMutex | |
| `Hub` | `hub.go`, `client.go`: registry, pumps, channels and who waits for whom | |
| `Manager` | `manager.go` step by step, beside what changes the rooms | |
| `CardsProofs` | lemmas about the operators of `Cards`, `Rules` and `BotStrategy` | TLAPS |
| `RulesProofs` | theorems about the rules and the bots' choices | `MCRules`, `CardsProofs` |
| `BotPlayerProofs` | theorems about a room with bots | `BotPlayer`, `EngineProofs`, `CardsProofs` |
| `MatchmakingProofs` | theorems about `Matchmaking` | `Matchmaking`, TLAPS |
| `LocksProofs` | theorems about `Locks` | `Locks`, TLAPS |
| `HubProofs` | theorems about `Hub`'s registry and the seats left behind | `Hub`, TLAPS |
| `ManagerProofs` | theorems about `Manager` | `Manager`, TLAPS |
| `MCEngine`, `MCRules`, `MCMatchmaking`, `MCBotPlayer`, `MCLocks`, `MCHub`, `MCManager` | instances for TLC | |

Definitions called "Mistake" are plausible bugs of the definition that follows
them; nothing uses them. `PROJECT.json` pairs each with the property that must
notice when the code had it.

**Cards.** A card is its `Value()`, rank * 4 + suit. `RankCount` (13 in the
program) and with it the size of the hands are parameters. A combination is a
set of cards; only `PlayerOwnsCards`, which refuses repetitions, takes the list
of the message.

**Engine.** `Players[i]` is split into `seat`, `ready`, `hand`, `cardCount`.
Every handler, the timer's callback, the reset and the matchmaker's seating
hold the room's lock from the first read of the room to the last write, so each
is one action; what is read *before* the lock is a step of its own (`MatchPick`
reads the RoomID, `MatchSeat` seats). Requests that are refused change nothing
and are no action. `timer` is the seat of the running timer; `TimerExpires`
moves it to `expired`, callbacks that wait for the lock and that `Stop()` no
longer stops; `TurnTimeout` is such a callback, which passes or finds its turn
gone. `resets` counts sleeping reset goroutines. `DEALING`, which is entered and
left under one lock, and `READY`, which is never used, are not states.
`Unregister` gives the connection back to the set of clients in no room: the
user's next connection.

**Trick.** A round without a pass counter: the turn goes around, the table is
cleared when the turn comes back to its leader. The refinement mapping reads
`playing` off the phase and `leader` off the table's owner.

**Matchmaking.** The loop over the wait list is one action per step between two
locks: examine the RoomID, seat under the room's lock, look for another room,
finish. The room is its seats: one with an empty seat is in the lobby (that is
`SeatedWhilePlaying`, proved for the room). Sending the match to a client whose
channel has been closed ends the process (`at = "panic"`).

**BotPlayer** extends the room with each bot's channel, view and goroutines;
the engine's actions are conjoined with the broadcasts they make. Passes are
announced as the code does, without `current_turn`. A bot shares its user
with nobody (`BotAssumption`: `nextBotID` counts down from -1). `Calm` is a timing
assumption: a timer (30 s) or a reset (5 s) does not end while a message sent
when it began is still unread or a bot's delay (at most 3 s) is running; and a
bot's "ready" (8 s after the settlement) comes after the reset. It is what keeps
the games played in the models games that can be played; without it, bots would
be slower than any timer.

**Locks** keeps of every operation the sequence of lock operations it makes. A
`Lock()` that waits keeps new readers out, as `sync.RWMutex` does.

**Hub** is about connections and channels. Each connection has its `reader`
and its `writer`, a Send channel of which only the number of `unread` messages
and whether it is `closed` matter, and a websocket that is `broken` once either
side has closed it. The hub's loop takes one registration, unregistration or
message at a time; a handler that answers leaves it `at = "answer"` until the
client's channel has room, one that asks for a match at `"enqueue"` until the
matchmaker's queue has. Broadcasts drop what does not fit. Of the rooms there is
one, and of it only how many `places` (seats and spectators' entries) each user
has: `HandlePlayerLeave` gives up one of the *user's*, whichever connection took
it. A callback may be delayed arbitrarily between looking a client up and
sending, so `CallbackSends` sends to any connection that was ever registered.
Sending on a closed channel ends the process (`at = "panic"`). Locks are not in
it; `Locks` has them. `disowned` is a history variable: the users of whom a place
was taken for a connection that was already unregistered or already in the room.

**Manager.** The manager's goroutine is at a room's read lock (`SetupLook`,
`FillLook`), at its write lock (`SetupClaim`, `FillClaim`), between two bots
(`RegisterBot`, `SeatBot`), or waiting for the ticker. A room is the number of
humans and bots in it, its phase, HasBots and how old WaitingSince is. `left`
is a history variable: somebody has left the room since the manager counted.

## Runs

| Run | Bounds | Shows |
|---|---|---|
| `room` | 5 clients, 4 seats, 4 ranks, 1 spectator, 1 late callback, 2 resets | invariants and action properties of the room, settlement, refinement |
| `liveness` | 4 clients, one of them in the wait list, 2 ranks, no spectators | turns move on, settlements end, also when the matchmaker seats blindly |
| `rules` | 2048 hands of up to 11 cards, all combinations of 11 others, 6 ranks | `validator.go` = README; bots' choices |
| `matchmaking` | 3 clients, 2 rooms of 1 seat, 3 requests | one seat each, and served |
| `bots` | 1 bot, 3 humans, 2 ranks | view, readiness, bots are clients, no panic in a game, games end |
| `locks` | 2 rooms, 4 threads | lock order, no deadlock |
| `hub` | 2 connections of 1 user, channels of 1, 2 places | registry, seats left behind, who waits for whom |
| `manager` | 2 rooms of 4 seats, 1 of them dedicated | bots leave a seat, rooms get their bots, and so do waiters whose clock runs |
| `bot_panic`, `bots_idle` | 3 bots, 1 human | findings 1, 2 |
| `list_deadlock` | `locks` and one `GET /api/rooms` | finding 3 |
| `stale_timer` | 4 clients, 2 ranks | finding 4 |

Why the bounds are enough. Four seats are the program's. The fifth client of
`room` is the spectator, or the one who takes a seat that was given up, without
which nothing of the old game could leak into the next. Its deal has a four of a
kind beside a lone 2 to chop, a triple with a single over in both orders, and a
hand of all 2s, so that every penalty, chops and games of several rounds happen;
its lists include a card named twice, cards of others and a list in the wrong
order. Two resets at once are needed for a game to be thrown away by the reset of
an earlier one *and* still be reset. One late callback is enough to meet a turn
that is not its own. In `rules`, hands reach four pairs in a row and a four of a
kind, and tables a pair of 2s. In `matchmaking` rooms of one seat make every
waiter contend; three requests allow one client to be in the list twice. In
`liveness` only seat 0 lays cards, a 3 and a 2, and time-outs do the rest, because what
matters is that every phase is left.

In `hub` channels of one message are full as soon as one is unread, so every
wait there is happens with two connections; that they are one user's makes them
meet in the registry, and two places let each of them have one. One connection
only asks for matches, the other sends everything else: which of the two was
first is open, so either can be the one that is replaced. In `manager` two
rooms are enough for a pass that must go on after a room that needs nothing.

`RoomWithBots` compares a room with bots with the room as `Engine` has it, step by
step, and `NoPanicInGame` is not idle in `bots`: the process does panic there, after
the game (finding 1). In `bots` the humans lay one card only (time-outs and passes do the rest), and
deadlock is not checked where the system may stop: nobody sends anything
(`bots`), every request is used up or the process has panicked (`matchmaking`),
every connection is gone or the process has panicked (`hub`), no card is left to
draw (`rules`).

## Fairness

Clients owe nothing: no fairness on joins, plays, passes. Timers fire and
goroutines that were started run: weak fairness of `TimerExpires`, each
`TurnTimeout` and `ResetRoom`; in `BotPlayer` also of each bot's reading, thinking and
sending, and of the hub's reading of `Incoming`. In `Matchmaking` the loop runs,
and `select`, which chooses at random among the ready cases, starves neither the
queue nor the ticker: strong fairness of `AddToWaitList` and `Tick`. In `Locks`
strong fairness of each thread's steps stands for the mutex's first-come order
and for writers that let readers in between; beginning an operation is never
obliged.

In `Hub` goroutines run (weak fairness of each pump's, the handlers' and the
matchmaker's steps), and `select` starves no channel, nor does a channel starve a
sender that waits, for its queue of senders is first-come: strong fairness of
`Unregister`, `Reply`, `Enqueue`, `AddToWaitList` and `Announce`. A peer that does
not read makes a write fail within ten seconds, so a writer with something to
write either writes or ends. Nobody is obliged to connect, to send or to break.
In `Manager` its goroutine runs and time passes; `Age` is strongly fair because
it is only enabled between two passes of the manager.

## Findings

1. `bot_panic` (`strategy.go:41`). Announcements of passes carry no
   `current_turn`, decode as seat 0, and start a second goroutine in the bot of
   that seat; when the first has played the last card the second takes the lowest
   card of an empty hand. `NoPanicInGame` shows that the game is then over.
2. `bots_idle` (`player.go:214`). Bots get ready only when seated and after a
   settlement; a game that a human leaves is neither, and the room never starts again.
3. `list_deadlock` (`hub.go:217`). The lister holds the hub's lock and wants a
   room's; a callback holds the room's and wants the hub's; a registration waiting
   to write keeps both waiting.
4. `stale_timer` (`engine.go:538`). A callback that waited for the lock while the
   turn came round passes for a turn that has just begun.

### Weaknesses

What the models show beside these; a property excepts each of them by name, so
that none catches it. The first two contradict what the repository says:

- `DueRoomsGetBots` is less than src/README.md:185, "Bots auto-fill regular rooms
  after 30 seconds if humans are waiting". No bots come to a room without a
  WaitingSince (`manager.go:156`): the matchmaker does not set it and a game that
  starts clears it (`engine.go:163`), so people who were matched, or stay after a
  game that others leave, wait for ever. Nor do any come to a room with HasBots
  (`manager.go:152`), even if people took the seats before the first bot did and
  have left since.
- `FindsABeatingPlay` is less than `strategy.go:116`, "findBeatingPlays enumerates
  all subsets of hand that can beat the table": of each rank a run takes the lowest
  cards, so that a bot with 3S, 4S, 5S and 5D passes on 3C, 4C, 5C, which its higher 5
  beats. The property is about tables that are no runs.

Of the others no line of the repository promises the absence:

- `GameNotThrownAway` excepts the reset of an earlier game, which `ResetRoom` lets
  wipe a running one (`engine.go:477`, no look at the phase).
- `Served` excepts a room that is found full: `service.go:98` then keeps as many
  waiters from the end of the list as it has kept so far, so that waiters in the
  middle are lost and others are kept twice.
- `SeatedOnce` is about the clients that leave their placing to the matchmaker,
  `MembershipAgrees` about those that never wait for it and are the only one of
  their user. A client that does both can get two seats, for the RoomID is read
  (`service.go:87`) before the room's lock is taken and not again; and so can a
  user with two clients, for nobody looks the user up among the seats.
- `NoGhostSeats` excepts the users in `disowned`. A `join_room` still in Incoming
  when its connection is unregistered (`hub.go:88`), or a match made for a client
  that is gone, takes a seat that nobody gives up again.
- `HubGoesOn` excepts `Stuck`. Handlers answer with a blocking send. When
  WritePump has returned after a failed write and the channel is full, only the
  hub's own Unregister could close it: the hub goroutine, and with it the
  server, waits for ever (`engine.go:61`).
- The liveness properties of `Hub` except the panic of a send on a closed
  channel: an answer to a connection that was replaced or unregistered
  (`engine.go:61`), a match announced to one (`service.go:117`), a callback that
  looked its client up just before (`hub.go:162`).
- `turnTimers` (`engine.go:558`) is one map for all rooms, written under the lock
  of whichever room is concerned; two at once end the process. It is not modelled.

## Proofs

Every safety property a passing run checks is proved; the list is `theorems` in
`PROJECT.json`. The theorems assume of the constants what
the named ASSUMEs say, which TLC evaluates in every run: ranks >= 2
(`RankCountAssumption`), an ante the hub makes a room with (`AnteAssumption`,
`ws/hub.go:60-69`), deals that are deals (`DealAssumption`), lists of cards, bounds >= 1
and the like; beyond that users, clients, rooms, seats, threads, channels and hands
are arbitrary.

### The room

`EngineProofs` proves type correctness, the room's safety invariants, the
settlement's amounts, its three action properties, and `Spec => ImplementsRound`.

The inductive invariant is `IInv == TypeOK /\ RoomInv`, where `RoomInv` joins the
invariants, because none of them is inductive alone. The turn follows from the
table (`TurnFollowsPlay`) only if `advanceTurn` skips nobody, which needs four
players who all hold cards (`SeatedWhilePlaying`). That survives the matchmaker
only because a running game has no empty seat for it, and survives `StartGame`
because of the deal. That the game ends when, and only when, a hand is empty
needs the counts to be the hands' sizes (`CardsConserved`); so does the winner
being unique (`WinnerEmptied`), for endGame takes the *lowest* seat without
cards. The timer's invariant must name the callback that is on its way
(`expired`), since a fired timer is gone from the map before the turn moves on.
And an abandoned game must leave nothing (`CleanLobby`) for cards to be conserved
when a seat is taken again.

The argument: lemmas for the helpers (`NextTurnInGame`: with four players the
loop of `advanceTurn` stops at once), one lemma per operation that its step
keeps `RoomInv` (`TakeSeatKeepsInv`, `LeaveKeepsInv`, `StartGameKeepsInv`,
`PlayInGame`, `PassKeepsInv`, ...), `RoomInvStep` over `Next`, `MembershipType` for
the variables that only matter to the types, and `StepInv`. The action
properties and the refinement rest on `StepEffects`: under `IInv`, what a step
may do to phase, turn and table, in the words of the abstract round.

`SettlementRight` is about a function of the hands, but takes from the room that
the winner is a seat and that each count is the size of a hand of cards. A
player's multiplier is the first of a chain of cases in the code;
`HighestPenalty` shows that the first that applies is the highest of the
documented ones, which needs that four 2s are all of them. The tenth of the pot
is a whole number because the antes are multiples of 100.

Who is where in a room (`MembershipRight`) relates three records of one fact: the seats, the list of
spectators, each client's RoomID. `MembershipAgrees` counts places; inductive is
`OnePlace`, which says where a client's one place is (a seat or an entry of the
list), together with `pick.client \in Waiters`: the matchmaker, which seats
without looking, never has a client in hand that is placed by hand. `OthersStay`
and `OnceIsGone` say what RemoveSpectator does to the entries of the others and
of the one who leaves, `LeaverIsAbsent` and `OthersKeepPlaces` what
HandlePlayerLeave does to places.

### The rules and the bots' choices

`RulesProofs` proves the properties of the run `rules` for any number of ranks >= 2,
with any cards to draw from (`CardsAssumption`). There is nothing to be inductive
but that hands and tables are sets of cards (`Seen`); the work is in the operators,
and `CardsProofs` does it apart from any state, for `BotPlayerProofs` needs it, too.

`validator.go` sorts the cards and compares neighbours; README.md:152-163 speaks
of ranks. `Sorted` says what a sorted list of a set is, `SortedRanks` what its
ranks are. A list whose ranks go up by one is a set of consecutive ranks, one card
each (`SequenceShape`), one whose ranks are r, r, r + 1, r + 1, ... two cards each
(`DoubleSequenceShape`, through `PairsAscend` and `PairsFromRanks`). `Classification`
puts them together: each kind of combination in terms of ranks, so that the order
of the code's tests does not matter. `Beaten` and `OneWay` then compare kinds, sizes
and highest cards.

`strategy.go` looks for combinations by rank. `RunShape` says that a finder's
cards for consecutive ranks are as many of each as it wanted, so that what is found
classifies as what it is called (`FoundSequence`, `FoundDoubleSequence`); with
`KindSameRanked` and `DoubleSequenceFound`, the converse for everything but runs, that
is `BeatingPlays` and `NoBeatMissed`. That a hand can be taken apart at all is a
theorem, for the model describes the loops that take combinations greedily by what
they end with, and CHOOSE promises nothing: `GreedyChoice` shows that whatever the
order of preference some disjoint sets can be taken that every other set meets
(of the initial parts of the collection for which it can be done one is longest);
`SequencesTaken` and `DoubleSequencesTaken` apply it, the latter after `BeforeOrders`, that
first card and length tell double sequences of one hand apart. What is left of a
rank is a single, a pair, a triple or a four (`LeftoverGroup`), hence `Decomposition`,
hence an opening (`Openings`).

### A room with bots

`BotPlayerProofs` first shows that to the room a bot is a client like any other
(`BotsAreClients`): every step of `BotNext` is a step of the engine, in which bots may
lay any set of cards, or leaves the room alone. The one step the engine does not
have, the manager's seating without a look at the phase, is a `join_room`, for
`SeatedWhilePlaying` leaves it no empty seat outside the lobby. The room's invariant,
its action properties and its refinement hence carry over (`SafeWithBots`,
`GamesWithBots`, `RefinementWithBots`), although a bot's cards are in no list `Lists`
has.

About the bots themselves the inductive invariant is `BInv`, for each bot:

- `BotTypes`: its channel carries deals, plays, turns and settlements, and every play
  it knows of is one that could be laid (`Laid`), which its strategy needs to answer.
  What it sends is a play of its own cards, a pass or "ready" (`ChoiceOfPlay`).
- `BotSeated`: it has one seat from the moment it is added; nobody else's coming and
  going moves it.
- `Outside`: before that it has been told nothing and thinks about nothing.
- `ReadyOnce`: of the unread settlement, the goroutine and the message that come one
  out of the other, at most one exists; and none while a game runs or the bot is
  ready, for else the toggle would take its readiness back (`ReadyStays`).
- `HandTracked`: while a game runs, the hand of the last unread deal, or the one the
  bot believes in when there is none, less the plays announced after it, is the hand
  the server has; these plays are disjoint, and no settlement comes after that deal.
  It holds with each message read (`TracksRead`) and each one added (`TracksMore`,
  `TracksDeal`). `BotsKnow` is the case of no unread deal, and with it a bot in a game
  never chooses from an empty hand (`NoPanic`).

The proofs of the steps go by what a bot hears of them (`Events`): somebody got ready,
played, passed, did something no bot is told, or a bot did something of its own.

### The matchmaker

`MatchmakingProofs` proves `SliceInRange` and `SeatedOnce` for any clients, rooms,
seats, channel capacity and number of requests. Between two locks the loop acts
on what it read: `InHand` says it still has a waiter when it seats or looks for
another room, `Unplaced` that the waiter it found in no room is in none yet, which
holds because nobody but the loop itself seats a client that leaves its placing
to the matchmaker. `OneSeat` is `SeatedOnce` the other way round: the seats that
name the client, rather than the set of its seats. That the kept slice is in
range is that the loop has kept at most what it has passed; a client may be in the
list any number of times.

### The locks

`LocksProofs` proves that a thread holds exactly the locks it has still to give
back and a writer is alone (`LocksOK`), and that no thread waits for anything but
the hub's lock while it holds one, but for the list of rooms (`HubLockIsInner`): which,
with the previous, leaves no circle of threads to wait in. The program counter of a
thread is the rest of its operation, so the invariant is about rests: every lock
taken is given back before the same lock is touched again, and after it is given
back the next touch takes it (`Sound`); who takes a lock while it still owes another
takes the hub's and owes a room's (`Ordered`). Both are true of every rest of a sequence
they are true of, and are shown once for every operation and once for the
sequences they are put together from. A waiting writer is still at its Lock()
(`Announced`).

### The bot manager

`ManagerProofs` proves `BotsLeaveASeat` and `RoomsGetTheirBots` for any rooms, any
number of seats and of dedicated rooms, and any number of bots in one of those
that leaves a seat (`ManagerAssumption`). Neither is inductive: between two locks
the manager acts on a number it computed under the first. `PlanFits` says that the plan still fits: the
bots seated and those still `needed` leave a seat (a marked room is touched by
nobody else who seats bots), they add up to what a dedicated room gets and, unless
somebody has left, with the people to a full room. People may come meanwhile, which
only leaves the manager fewer bots to seat; each case is one lemma
(`EnterKeepsInv`, ...).

### The hub

`HubProofs` proves `RegistryOK` for any users, connections and capacities. The
registry is related to two things that change at different moments: closing
happens at a Register for the *old* connection, or at an Unregister for the
*current* one. `Registry` ties them together, and needs `OwnConnections`, that
nobody is registered under another user, for else a Register would close the
channel of a connection that is still in the registry elsewhere. Only three
actions touch any of it (`RegisterKeepsRegistry`, `UnregisterKeepsRegistry`,
`ReadFailsKeepsRegistry`); the rest of the proof is the types.

`NoSeatsLeft` counts. `Accounted`: unless the model has `disowned` him a user has at
most as many places as connections that are in the room and whose reader is not
done, for each of these will give one back. A place is thus only ever taken for a
connection that has been started (`Started`), wherever its request waits: in
Incoming, in the hub's hands, in the matchmaker's queue or its list.

### Model-checked only

Liveness under fairness (`TurnMoves`, `SettlementEnds`, `Served`, `GameEnds`,
`EveryOperationEnds`, `HubGoesOn`, `ConnectionsWindUp`, `DueRoomsGetBots`), which is out of the
prover's reach, and the four runs that end in a counterexample, as such. Conversely,
some things are proved and not run: that games keep their players and lobbies stay
clean when the matchmaker seats clients; that no two plays beat each other (`OneWay`);
and the room's invariants with bots in it, which `bots` checks by way of
`RoomWithBots` only.

## Not modelled

Chat texts, names, logging and JSON; the parsing of ranks and suits; more than
one ante level (nothing is shared); authentication, database, configuration,
the HTTP server's shutdown; the Godot and web clients, for which a client that
sends anything at any time stands. `Engine` leaves broadcasts out (`Hub` has what
they do to the channels); those to bots are never dropped in `BotPlayer` (the
code drops them when 256 are unread).

## Plan

Modelled, in this order: `Cards`, `Settlement`, `Engine` with `Trick` and its
proofs, because everything else leans on it; the matchmaker's loop, the bots, the
locks; then the hub with its connections and the bot manager. Proved: first the
room, the registry and the manager, then membership and settlement, the seats left
behind, the matchmaker, the locks, the rules and the bots' choices; last the room
with bots, which rests on the proofs of both the room and the choices.

No safety property of a passing run is left to prove. The liveness properties, and
with them what `Calm` and the fairness assumptions are for, stay with TLC.
