------------------------------ MODULE Manager ------------------------------
(***************************************************************************)
(* The bot manager of internal/bot/manager.go.  Its goroutine first sets   *)
(* up the dedicated bot rooms, then looks at every room every 30 seconds   *)
(* and fills up those in which somebody has been waiting that long.  It    *)
(* decides on what it reads under one lock of the room and acts under      *)
(* later ones, seat by seat; between any two of them the hub goroutine and *)
(* the matchmaker seat people, remove them and start and end games.        *)
(*                                                                         *)
(* Of a room there is who sits in it, by number and kind; the bots' play   *)
(* is module BotPlayer's.  Rooms of different antes only differ in that    *)
(* each ante has its dedicated rooms: these are the rooms of one ante.     *)
(***************************************************************************)
EXTENDS Naturals

CONSTANTS
  Room,
  NoRoom,            \* in place of a room: none
  SeatCount,         \* seats of a room: 4 in the program
  DedicatedRooms,    \* DedicatedRoomsPerAnte: 10
  DedicatedBots      \* bots in each: 3

ASSUME ManagerAssumption ==
  /\ NoRoom \notin Room
  /\ SeatCount \in Nat \ {0} /\ DedicatedRooms \in Nat
  /\ DedicatedBots \in 1 .. SeatCount - 1

VARIABLES
  humans, bots,   \* how many sit in each room
  phase,          \* "lobby" or "playing"
  hasBots,        \* HasBots
  waitingSince,   \* WaitingSince: "none", "fresh", or "old" (30 seconds ago)
  registered,     \* how many bots for each room are in the hub's registry
  job,            \* the manager: at "setup" or, later, to "fill" rooms
  at,             \* in its "loop" over rooms, about to "claim" one, "register"
                  \* a bot or "seat" it, or asleep until the "tick"
  todo,           \* the rooms it has not looked at yet
  count,          \* the rooms it has set up
  room, needed,   \* the room it is at and how many bots to add
  left            \* has anybody left the room since it looked at it?

roomVars == <<humans, bots, phase, hasBots, waitingSince>>
loopVars == <<job, todo, count, room>>
vars == <<roomVars, registered, loopVars, at, needed, left>>

Init ==
  /\ humans = [r \in Room |-> 0] /\ bots = [r \in Room |-> 0]
  /\ phase = [r \in Room |-> "lobby"] /\ hasBots = [r \in Room |-> FALSE]
  /\ waitingSince = [r \in Room |-> "none"]
  /\ registered = [r \in Room |-> 0]
  /\ job = "setup" /\ at = "loop" /\ todo = Room /\ count = 0
  /\ room = NoRoom /\ needed = 0 /\ left = FALSE

PlayerCount(r) == humans[r] + bots[r]
Full(r) == PlayerCount(r) = SeatCount

----------------------------------------------------------------------------
(* The rooms, as their players and the matchmaker change them. *)

Enter(r) ==
  /\ phase[r] = "lobby" /\ ~Full(r)
  /\ humans' = [humans EXCEPT ![r] = @ + 1]
  /\ UNCHANGED <<bots, phase, hasBots, registered, loopVars, at, needed, left>>

\* handleJoinRoom: the first one starts the clock.
Join(r) ==
  /\ Enter(r)
  /\ waitingSince' = [waitingSince EXCEPT ![r] = IF @ = "none" THEN "fresh" ELSE @]

\* The matchmaker leaves the clock alone.
Matched(r) == Enter(r) /\ UNCHANGED waitingSince

\* HandlePlayerLeave.
Leave(r) ==
  /\ humans[r] > 0
  /\ humans' = [humans EXCEPT ![r] = @ - 1]
  /\ phase' = [phase EXCEPT ![r] = "lobby"]
  /\ left' = (left \/ r = room)
  /\ UNCHANGED <<bots, hasBots, waitingSince, registered, loopVars, at, needed>>

\* Everybody is ready.
StartGame(r) ==
  /\ phase[r] = "lobby" /\ Full(r)
  /\ phase' = [phase EXCEPT ![r] = "playing"]
  /\ waitingSince' = [waitingSince EXCEPT ![r] = "none"]
  /\ UNCHANGED <<humans, bots, hasBots, registered, loopVars, at, needed, left>>

EndGame(r) ==
  /\ phase[r] = "playing"
  /\ phase' = [phase EXCEPT ![r] = "lobby"]
  /\ UNCHANGED <<humans, bots, hasBots, waitingSince, registered, loopVars, at, needed, left>>

\* 30 seconds pass.  The manager reads the time once, at the tick: what grows
\* old while it works is only seen at the next one.
Age(r) ==
  /\ at = "tick" /\ waitingSince[r] = "fresh"
  /\ waitingSince' = [waitingSince EXCEPT ![r] = "old"]
  /\ UNCHANGED <<humans, bots, phase, hasBots, registered, loopVars, at, needed, left>>

----------------------------------------------------------------------------
(* setupDedicatedRooms *)

\* Under the read lock; the map is walked in any order.
SetupLook(r) ==
  /\ job = "setup" /\ at = "loop" /\ count < DedicatedRooms /\ r \in todo
  /\ todo' = todo \ {r}
  /\ IF phase[r] = "lobby" /\ PlayerCount(r) = 0
     THEN at' = "claim" /\ room' = r ELSE UNCHANGED <<at, room>>
  /\ left' = FALSE
  /\ UNCHANGED <<roomVars, registered, job, count, needed>>

\* Under the write lock, after looking again.
SetupClaim ==
  /\ job = "setup" /\ at = "claim"
  /\ IF PlayerCount(room) # 0 \/ phase[room] # "lobby"
     THEN at' = "loop" /\ UNCHANGED <<hasBots, needed, count>>
     ELSE /\ hasBots' = [hasBots EXCEPT ![room] = TRUE]
          /\ needed' = DedicatedBots /\ at' = "register" /\ count' = count + 1
  /\ UNCHANGED <<humans, bots, phase, waitingSince, registered, job, todo, room, left>>

SetupEnds ==
  /\ job = "setup" /\ at = "loop" /\ (count >= DedicatedRooms \/ todo = {})
  /\ job' = "fill" /\ at' = "tick"
  /\ UNCHANGED <<roomVars, registered, todo, count, room, needed, left>>

----------------------------------------------------------------------------
(* autoFillRooms *)

Tick ==
  /\ job = "fill" /\ at = "tick"
  /\ at' = "loop" /\ todo' = Room
  /\ UNCHANGED <<roomVars, registered, job, count, room, needed, left>>

Look(r, fill) ==
  /\ job = "fill" /\ at = "loop" /\ r \in todo
  /\ IF fill
     THEN at' = "claim" /\ room' = r /\ needed' = SeatCount - PlayerCount(r)
     ELSE UNCHANGED <<at, room, needed>>
  /\ left' = FALSE
  /\ UNCHANGED <<roomVars, registered, job, count>>

\* Mistake: bots for the people who have gone, too.
FillLookAnybody(r) ==
  /\ Look(r, phase[r] = "lobby" /\ ~Full(r) /\ ~hasBots[r] /\ waitingSince[r] = "old")
  /\ todo' = todo \ {r}

\* Mistake: the first room that needs nothing ends the pass.
FillLookReturns(r) ==
  LET fill == /\ phase[r] = "lobby" /\ humans[r] > 0 /\ ~Full(r)
              /\ ~hasBots[r] /\ waitingSince[r] = "old"
  IN Look(r, fill) /\ todo' = IF fill THEN todo \ {r} ELSE {}

\* Everything it decides on, read under one read lock.
FillLook(r) ==
  /\ Look(r, /\ phase[r] = "lobby" /\ humans[r] > 0 /\ ~Full(r)
             /\ ~hasBots[r] /\ waitingSince[r] = "old")
  /\ todo' = todo \ {r}

\* Under the write lock, without looking again.
FillClaim ==
  /\ job = "fill" /\ at = "claim"
  /\ hasBots' = [hasBots EXCEPT ![room] = TRUE] /\ at' = "register"
  /\ UNCHANGED <<humans, bots, phase, waitingSince, registered, loopVars, needed, left>>

FillEnds ==
  /\ job = "fill" /\ at = "loop" /\ todo = {}
  /\ at' = "tick"
  /\ UNCHANGED <<roomVars, registered, loopVars, needed, left>>

----------------------------------------------------------------------------
(* addBotsToRoom *)

RegisterBot ==
  /\ at = "register"
  /\ registered' = [registered EXCEPT ![room] = @ + 1] /\ at' = "seat"
  /\ UNCHANGED <<roomVars, loopVars, needed, left>>

\* Mistake: the loop stops one bot early.
SeatBotOneLess ==
  /\ at = "seat"
  /\ IF Full(room)
     THEN /\ registered' = [registered EXCEPT ![room] = @ - 1]
          /\ needed' = 0 /\ at' = "loop" /\ UNCHANGED bots
     ELSE /\ bots' = [bots EXCEPT ![room] = @ + 1]
          /\ needed' = needed - 1
          /\ at' = (IF needed <= 2 THEN "loop" ELSE "register")
          /\ UNCHANGED registered
  /\ UNCHANGED <<humans, phase, hasBots, waitingSince, loopVars, left>>

\* Seat or unregister it, under the write lock.
SeatBot ==
  /\ at = "seat"
  /\ IF Full(room)
     THEN /\ registered' = [registered EXCEPT ![room] = @ - 1]
          /\ needed' = 0 /\ at' = "loop" /\ UNCHANGED bots
     ELSE /\ bots' = [bots EXCEPT ![room] = @ + 1]
          /\ needed' = needed - 1
          /\ at' = (IF needed = 1 THEN "loop" ELSE "register")
          /\ UNCHANGED registered
  /\ UNCHANGED <<humans, phase, hasBots, waitingSince, loopVars, left>>

----------------------------------------------------------------------------
Manage ==
  \/ \E r \in Room : SetupLook(r) \/ FillLook(r)
  \/ SetupClaim \/ SetupEnds \/ Tick \/ FillClaim \/ FillEnds
  \/ RegisterBot \/ SeatBot

Next ==
  \/ \E r \in Room : Join(r) \/ Matched(r) \/ Leave(r) \/ StartGame(r) \/ EndGame(r) \/ Age(r)
  \/ Manage

Spec == Init /\ [][Next]_vars

\* The manager's goroutine runs, and so does the clock; people owe nothing.
FairSpec == Spec /\ WF_vars(Manage) /\ \A r \in Room : SF_vars(Age(r))

----------------------------------------------------------------------------
(* Correctness. *)

ManagerTypeOK ==
  /\ humans \in [Room -> 0..SeatCount] /\ bots \in [Room -> 0..SeatCount]
  /\ phase \in [Room -> {"lobby", "playing"}] /\ hasBots \in [Room -> BOOLEAN]
  /\ waitingSince \in [Room -> {"none", "fresh", "old"}]
  /\ registered \in [Room -> Nat] /\ count \in 0..DedicatedRooms
  /\ job \in {"setup", "fill"} /\ at \in {"loop", "claim", "register", "seat", "tick"}
  /\ todo \subseteq Room /\ left \in BOOLEAN
  /\ room \in Room \cup {NoRoom} /\ (at \in {"claim", "register", "seat"} => room \in Room)
  /\ needed \in 0..SeatCount /\ (at \in {"register", "seat"} => needed > 0)

\* Whoever comes, goes and plays while the manager is at work on what it has
\* read before: no room is overbooked; no room ever has bots in all its seats,
\* where four of them would play each other for ever; no bot takes a seat in
\* a room that is not marked; and a bot is in the hub's registry exactly if it
\* has a seat, but for the one about to get it.
BotsLeaveASeat ==
  /\ ManagerTypeOK
  /\ \A r \in Room : /\ PlayerCount(r) <= SeatCount
                     /\ bots[r] < SeatCount
                     /\ bots[r] > 0 => hasBots[r]
                     /\ registered[r] = bots[r] + (IF at = "seat" /\ r = room THEN 1 ELSE 0)

\* When the manager is done with a room that it fills, the room is full, even
\* if somebody else was seated meanwhile, unless somebody has left it since
\* the seats were counted; a dedicated room has its three bots or is full.
RoomsGetTheirBots ==
  [][at = "seat" /\ at' = "loop" =>
       \/ Full(room)'
       \/ job = "fill" /\ left
       \/ job = "setup" /\ bots'[room] = DedicatedBots]_vars

Waiting(r) == phase[r] = "lobby" /\ humans[r] > 0 /\ ~Full(r)

\* Once the clock of a room runs, because somebody has joined it by hand, the
\* people in it get a bot, unless they go away or become four.  This is less
\* than src/README.md:185, "Bots auto-fill regular rooms after 30 seconds if
\* humans are waiting".  The code passes by, and the property excepts:
\*  - rooms without a clock: the matchmaker does not start it, and the start of
\*    a game stops it for those who stay afterwards (engine.go:163);
\*  - rooms that are marked already (manager.go:152): they had bots, or bots
\*    that found no seat, and get none again when people have left.
DueRoomsGetBots ==
  \A r \in Room :
    Waiting(r) /\ waitingSince[r] # "none" /\ ~hasBots[r]
      ~> bots[r] > 0 \/ Full(r) \/ humans[r] = 0
=============================================================================
