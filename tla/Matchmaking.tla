---------------------------- MODULE Matchmaking ----------------------------
(***************************************************************************)
(* The auto-match service of internal/matchmaking/service.go for one ante  *)
(* level (lists and rooms of different levels have nothing in common).     *)
(* Its goroutine moves requests from a channel to the wait list and, every *)
(* two seconds, walks the list; the hub goroutine goes on handling         *)
(* messages between any two of its steps.                                  *)
(*                                                                         *)
(* A room here is its seats.  A room with an empty seat is in the lobby    *)
(* (Engine!SeatedWhilePlaying), so the phase adds nothing.                 *)
(***************************************************************************)
EXTENDS Naturals, Sequences, FiniteSets

CONSTANTS
  Client,
  Nobody,        \* an empty seat
  Room,          \* the rooms of the ante level
  Nowhere,       \* RoomID = 0
  SeatCount,     \* seats of a room: 4 in the program
  Joiners,       \* the clients that may also join rooms by hand
  Quitters,      \* the clients whose connection may break
  QueueCap,      \* capacity of the channel: 100 in the program
  MaxRequests,   \* bound: requests that are ever made
  MaxWaiting     \* bound: length of the list a round without a room leaves

ASSUME SizeAssumption ==
  /\ SeatCount \in Nat \ {0}
  /\ QueueCap \in Nat \ {0}
  /\ Joiners \subseteq Client /\ Quitters \subseteq Client
  /\ Nobody \notin Client /\ Nowhere \notin Room

VARIABLES
  players,     \* players[r][i]: who sits in seat i of room r
  roomOf,      \* the clients' RoomID
  queue,       \* the channel of requests
  waiting,     \* waitLists[ante]
  requests,    \* how many requests have been made
  gone,        \* the clients whose connection is closed
  at,          \* where the loop is: "idle", "examine", "seat" or "find", or
               \* "panic" when it has sent on a closed channel
  list,        \* waiters: the list as the loop found it
  i,           \* the waiter it is at
  room,        \* the room it fills
  remaining    \* the waiters it keeps

loopVars == <<at, list, i, room, remaining>>
vars == <<players, roomOf, queue, waiting, requests, gone, loopVars>>

Init ==
  /\ players = [r \in Room |-> [k \in 1..SeatCount |-> Nobody]]
  /\ roomOf = [c \in Client |-> Nowhere]
  /\ queue = << >> /\ waiting = << >>
  /\ requests = 0 /\ gone = {}
  /\ at = "idle" /\ list = << >> /\ i = 1 /\ room = Nowhere /\ remaining = << >>

EmptySeats(r) == {k \in 1..SeatCount : players[r][k] = Nobody}
Available == {r \in Room : EmptySeats(r) # {}}
FirstOf(S) == CHOOSE k \in S : \A j \in S : k <= j

\* A client enters a room in its first empty seat.
Enter(c, r) ==
  /\ players' = [players EXCEPT ![r][FirstOf(EmptySeats(r))] = c]
  /\ roomOf' = [roomOf EXCEPT ![c] = r]

----------------------------------------------------------------------------
(* The hub goroutine. *)

\* After a panic the process is gone.
Running == at # "panic"

\* Nothing keeps a client from asking twice, or while it is in a room.
RequestMatch(c) ==
  /\ Running /\ c \notin gone /\ requests < MaxRequests
  /\ Len(queue) < QueueCap
  /\ requests' = requests + 1
  /\ queue' = Append(queue, c)
  /\ UNCHANGED <<players, roomOf, waiting, gone, loopVars>>

\* In a full room the client becomes a spectator, if that is possible.
JoinRoom(c, r) ==
  /\ Running /\ c \in Joiners \ gone /\ roomOf[c] = Nowhere
  /\ IF r \in Available
     THEN Enter(c, r)
     ELSE roomOf' = [roomOf EXCEPT ![c] = r] /\ UNCHANGED players
  /\ UNCHANGED <<queue, waiting, requests, gone, loopVars>>

\* HandlePlayerLeave: the client's first seat in the room becomes empty.
GiveUpSeat(c) ==
  LET mine == {k \in 1..SeatCount : players[roomOf[c]][k] = c}
  IN  players' = IF mine = {} THEN players
                 ELSE [players EXCEPT ![roomOf[c]][FirstOf(mine)] = Nobody]

LeaveRoom(c) ==
  /\ Running /\ c \notin gone /\ roomOf[c] # Nowhere
  /\ GiveUpSeat(c)
  /\ roomOf' = [roomOf EXCEPT ![c] = Nowhere]
  /\ UNCHANGED <<queue, waiting, requests, gone, loopVars>>

\* The hub closes the client's channel; its RoomID stays, and so does its
\* place in the lists.
Disconnect(c) ==
  /\ Running /\ c \in Quitters \ gone
  /\ IF roomOf[c] # Nowhere THEN GiveUpSeat(c) ELSE UNCHANGED players
  /\ gone' = gone \cup {c}
  /\ UNCHANGED <<roomOf, queue, waiting, requests, loopVars>>

----------------------------------------------------------------------------
(* The matchmaking goroutine. *)

\* Mistake: the newcomer's list replaces the old one.
OverwriteWaitList ==
  /\ at = "idle" /\ queue # << >>
  /\ waiting' = <<Head(queue)>>
  /\ queue' = Tail(queue)
  /\ UNCHANGED <<players, roomOf, requests, gone, loopVars>>

AddToWaitList ==
  /\ at = "idle" /\ queue # << >>
  /\ waiting' = Append(waiting, Head(queue))
  /\ queue' = Tail(queue)
  /\ UNCHANGED <<players, roomOf, requests, gone, loopVars>>

Tick ==
  /\ at = "idle" /\ waiting # << >>
  /\ room' \in Available
  /\ at' = "examine" /\ list' = waiting /\ i' = 1 /\ remaining' = << >>
  /\ UNCHANGED <<players, roomOf, queue, waiting, requests, gone>>

\* Mistake: GetRoom() is not looked at.
ExamineNobody ==
  /\ at = "examine" /\ i <= Len(list)
  /\ at' = "seat"
  /\ UNCHANGED <<players, roomOf, queue, waiting, requests, gone, list, i, room, remaining>>

\* A waiter that is in a room by now is dropped from the list.
Examine ==
  /\ at = "examine" /\ i <= Len(list)
  /\ IF roomOf[list[i]] # Nowhere THEN at' = at /\ i' = i + 1
                                  ELSE at' = "seat" /\ i' = i
  /\ UNCHANGED <<players, roomOf, queue, waiting, requests, gone, list, room, remaining>>

\* Under the room's lock; the message that a match was found is sent straight
\* to the client's channel, which the hub may have closed.
SeatWaiter ==
  /\ at = "seat"
  /\ IF EmptySeats(room) # {}
     THEN /\ Enter(list[i], room)
          /\ at' = IF list[i] \in gone THEN "panic" ELSE "examine"
          /\ i' = i + 1
          /\ UNCHANGED remaining
     ELSE /\ remaining' = Append(remaining, list[i])
          /\ at' = "find"
          /\ UNCHANGED <<players, roomOf, i>>
  /\ UNCHANGED <<queue, waiting, requests, gone, list, room>>

\* Mistake: the waiter is tried again in the next room, and kept as well.
FindAnotherRoomRetry ==
  /\ at = "find"
  /\ \/ /\ room' \in Available
        /\ at' = "examine" /\ UNCHANGED <<waiting, remaining, i>>
     \/ /\ Available = {} /\ 2 * Len(remaining) <= MaxWaiting
        /\ waiting' = remaining \o SubSeq(list, Len(list) - Len(remaining) + 1, Len(list))
        /\ at' = "idle" /\ i' = 1 /\ room' = Nowhere /\ remaining' = << >>
  /\ list' = IF at' = "idle" THEN << >> ELSE list
  /\ UNCHANGED <<players, roomOf, queue, requests, gone>>

\* The room was full.  With another one the loop goes on with the next
\* waiter; without one it keeps as many of the last waiters as it has kept so
\* far: waiters[len(waiters)-len(remaining):].
FindAnotherRoom ==
  /\ at = "find"
  /\ \/ /\ room' \in Available
        /\ at' = "examine" /\ i' = i + 1
        /\ UNCHANGED <<waiting, remaining>>
     \/ /\ Available = {} /\ 2 * Len(remaining) <= MaxWaiting
        /\ waiting' = remaining \o SubSeq(list, Len(list) - Len(remaining) + 1, Len(list))
        /\ at' = "idle" /\ i' = 1 /\ room' = Nowhere /\ remaining' = << >>
  /\ list' = IF at' = "idle" THEN << >> ELSE list
  /\ UNCHANGED <<players, roomOf, queue, requests, gone>>

\* The list is done.
Finish ==
  /\ at = "examine" /\ i > Len(list)
  /\ waiting' = remaining
  /\ at' = "idle" /\ list' = << >> /\ i' = 1 /\ room' = Nowhere /\ remaining' = << >>
  /\ UNCHANGED <<players, roomOf, queue, requests, gone>>

Matchmaker ==
  AddToWaitList \/ Tick \/ Examine \/ SeatWaiter \/ FindAnotherRoom \/ Finish

Next ==
  \/ \E c \in Client :
       \/ RequestMatch(c) \/ LeaveRoom(c) \/ Disconnect(c)
       \/ \E r \in Room : JoinRoom(c, r)
  \/ Matchmaker

Spec == Init /\ [][Next]_vars

\* The service's goroutine runs, and its select does not prefer the ticker
\* for ever.
FairSpec == Spec /\ WF_vars(Matchmaker) /\ SF_vars(AddToWaitList) /\ SF_vars(Tick)

----------------------------------------------------------------------------
(* Correctness. *)

InList(c, s) == \E k \in DOMAIN s : s[k] = c

TypeOK ==
  /\ players \in [Room -> [1..SeatCount -> Client \cup {Nobody}]]
  /\ roomOf \in [Client -> Room \cup {Nowhere}]
  /\ queue \in Seq(Client) /\ waiting \in Seq(Client) /\ list \in Seq(Client)
  /\ remaining \in Seq(Client)
  /\ at \in {"idle", "examine", "seat", "find", "panic"}
  /\ room \in Room \cup {Nowhere}
  /\ at \in {"examine", "seat", "find"} => room \in Room
  /\ i \in 1 .. Len(list) + 1

SeatsOf(c) == {s \in Room \X (1..SeatCount) : players[s[1]][s[2]] = c}

\* A client that leaves its placing to the matchmaker sits in one seat, of the
\* room its RoomID names, however often it has asked and however often it is
\* in the lists.
SeatedOnce ==
  \A c \in Client \ (Joiners \cup gone) :
    \/ SeatsOf(c) = {} /\ roomOf[c] = Nowhere
    \/ \E k \in 1..SeatCount : SeatsOf(c) = {<<roomOf[c], k>>}

\* The slice expression that keeps the rest of the list stays within it
\* (service.go:98): the loop keeps at most the waiters it has passed.
SliceInRange ==
  /\ TypeOK
  /\ Len(remaining) <= IF at = "find" THEN i ELSE i - 1

\* Whoever asks is seated sooner or later.  The promise ends where seats are
\* contested: when there is none, or when the room being filled turns out to be
\* full, for then FindAnotherRoom puts the waiter off, however often that
\* happens, and may drop waiters from the list or keep them twice.
Served ==
  \A c \in Client :
    InList(c, queue) ~>
      roomOf[c] # Nowhere \/ Available = {} \/ at \in {"find", "panic"}
=============================================================================
