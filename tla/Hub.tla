-------------------------------- MODULE Hub --------------------------------
(***************************************************************************)
(* The life of a connection: internal/ws/hub.go and internal/ws/client.go, *)
(* with the goroutines that block on each other's channels.                *)
(*                                                                         *)
(* A connection has a goroutine that reads the websocket (ReadPump) and    *)
(* one that writes it (WritePump).  The hub goroutine keeps the registry   *)
(* of connections by user, closes their Send channels and handles their    *)
(* messages; the matchmaking goroutine and callbacks of timers and of      *)
(* finished games send to them from outside.  A user may have several      *)
(* connections: reconnecting, the second may come before the first is      *)
(* known to be gone.                                                       *)
(*                                                                         *)
(* Messages are what they may do to these channels; of the rooms there is  *)
(* one, of which only who has places in it is kept, and how many.          *)
(***************************************************************************)
EXTENDS Naturals, Sequences

LOCAL INSTANCE Functions

CONSTANTS
  Conn,          \* connections (*ws.Client)
  User,
  UserOf,        \* the user a connection has authenticated as
  Nobody,        \* in place of a connection: none
  SendCap,       \* capacity of a Send channel: 256 in the program
  IncomingCap,   \* capacity of Incoming: 256
  QueueCap,      \* capacity of the matchmaker's queue: 100
  Places,        \* seats and spectators a room holds: 4 + 3
  Sends          \* bound: the kinds of messages each connection sends

Kind == {"join", "leave", "move", "match"}

ASSUME ConnAssumption ==
  /\ UserOf \in [Conn -> User]
  /\ Nobody \notin Conn
  /\ Sends \in [Conn -> SUBSET Kind]
  /\ SendCap \in Nat \ {0} /\ IncomingCap \in Nat \ {0} /\ QueueCap \in Nat \ {0}
  /\ Places \in Nat \ {0}

VARIABLES
  registered,  \* h.Clients: the connection of each user
  reader,      \* ReadPump: "new" (not started), "reading", "leaving" or "done"
  writer,      \* WritePump: "new", "running" or "done"
  broken,      \* the connections whose websocket is closed
  closed,      \* the connections whose Send channel is closed
  unread,      \* how many messages are in each Send channel
  incoming,    \* h.Incoming
  inRoom,      \* the connections whose RoomID is the room
  places,      \* how many seats and spectator's entries a user has there
  at,          \* the hub goroutine: in its "loop", sending an "answer" to a
               \* client, waiting to "enqueue" a match request; or "panic",
               \* when some goroutine has sent on a closed channel
  client,      \* the client the hub's message is from
  queue,       \* the matchmaker's channel
  waiting,     \* its wait list
  mm,          \* the matchmaker: "idle", about to "place" or to "announce"
  placing,     \* the client it has taken from the list
  disowned     \* the users whose place was taken on behalf of a connection
               \* that was unregistered, or in a room already

hubVars == <<registered, closed, at, client>>
pumpVars == <<reader, writer, broken>>
roomVars == <<inRoom, places, disowned>>
mmVars == <<queue, waiting, mm, placing>>
vars == <<hubVars, pumpVars, roomVars, mmVars, unread, incoming>>

Init ==
  /\ registered = [u \in User |-> Nobody]
  /\ reader = [c \in Conn |-> "new"] /\ writer = [c \in Conn |-> "new"]
  /\ broken = {} /\ closed = {}
  /\ unread = [c \in Conn |-> 0]
  /\ incoming = << >>
  /\ inRoom = [c \in Conn |-> FALSE] /\ places = [u \in User |-> 0]
  /\ at = "loop" /\ client = Nobody
  /\ queue = << >> /\ waiting = {} /\ mm = "idle" /\ placing = Nobody
  /\ disowned = {}

Running == at # "panic"
Gone(c) == reader[c] = "done"

\* A message that is dropped when the channel is full.
Offered(n) == IF n < SendCap THEN n + 1 ELSE n

\* sendToUsers: to the registered connections of the users in the room.
Broadcast ==
  unread' = [c \in Conn |->
               IF registered'[UserOf[c]] = c /\ places'[UserOf[c]] > 0
               THEN Offered(unread[c]) ELSE unread[c]]

\* A send that waits for room in the channel; it panics if the channel is
\* closed, or is while it waits.
CanSend(c) == c \in closed \/ unread[c] < SendCap
Send(c) == unread' = IF c \in closed THEN unread ELSE [unread EXCEPT ![c] = @ + 1]

----------------------------------------------------------------------------
(* The pumps. *)

\* The peer goes away, sends too long a message, or answers neither messages
\* nor pings in time.
Break(c) ==
  /\ Running /\ reader[c] = "reading" /\ c \notin broken
  /\ broken' = broken \cup {c}
  /\ UNCHANGED <<hubVars, reader, writer, roomVars, mmVars, unread, incoming>>

\* ReadPump forwards a message; what was received before the websocket broke
\* can still be read.
Read(c, kind) ==
  /\ Running /\ reader[c] = "reading" /\ Len(incoming) < IncomingCap
  /\ incoming' = Append(incoming, [from |-> c, kind |-> kind])
  /\ UNCHANGED <<hubVars, pumpVars, roomVars, mmVars, unread>>

\* ReadMessage returns an error.  The pump ends with Unregister <- c.
ReadFails(c) ==
  /\ Running /\ reader[c] = "reading" /\ c \in broken
  /\ reader' = [reader EXCEPT ![c] = "leaving"]
  /\ UNCHANGED <<hubVars, writer, broken, roomVars, mmVars, unread, incoming>>

Write(c) ==
  /\ Running /\ writer[c] = "running" /\ unread[c] > 0
  /\ unread' = [unread EXCEPT ![c] = @ - 1]
  /\ UNCHANGED <<hubVars, pumpVars, roomVars, mmVars, incoming>>

\* A message or a ping cannot be written: nobody reads the channel any more.
WriteFails(c) ==
  /\ Running /\ writer[c] = "running" /\ c \in broken
  /\ writer' = [writer EXCEPT ![c] = "done"]
  /\ UNCHANGED <<hubVars, reader, broken, roomVars, mmVars, unread, incoming>>

\* Mistake: WritePump does not close the websocket when it returns.
WriterEndsOnly(c) ==
  /\ Running /\ writer[c] = "running" /\ c \in closed /\ unread[c] = 0
  /\ writer' = [writer EXCEPT ![c] = "done"]
  /\ UNCHANGED <<hubVars, reader, broken, roomVars, mmVars, unread, incoming>>

\* The channel is closed, and read to its end.
WriterEnds(c) ==
  /\ Running /\ writer[c] = "running" /\ c \in closed /\ unread[c] = 0
  /\ writer' = [writer EXCEPT ![c] = "done"]
  /\ broken' = broken \cup {c}
  /\ UNCHANGED <<hubVars, reader, roomVars, mmVars, unread, incoming>>

----------------------------------------------------------------------------
(* The hub goroutine: Run. *)

\* HandleUpgrade hands the connection over and starts its pumps.
Register(c) ==
  LET old == registered[UserOf[c]] IN
  /\ at = "loop" /\ reader[c] = "new"
  /\ closed' = IF old = Nobody THEN closed ELSE closed \cup {old}
  /\ registered' = [registered EXCEPT ![UserOf[c]] = c]
  /\ reader' = [reader EXCEPT ![c] = "reading"]
  /\ writer' = [writer EXCEPT ![c] = "running"]
  /\ UNCHANGED <<at, client, broken, roomVars, mmVars, unread, incoming>>

\* HandlePlayerLeave gives up a place of the user's, whichever connection
\* took it.
GiveUpPlace(u) == places' = [places EXCEPT ![u] = IF @ > 0 THEN @ - 1 ELSE 0]

\* Mistake: the registered connection is not compared.
UnregisterAny(c) ==
  /\ at = "loop" /\ reader[c] = "leaving"
  /\ reader' = [reader EXCEPT ![c] = "done"]
  /\ broken' = broken \cup {c}
  /\ closed' = closed \cup {c}
  /\ registered' = [registered EXCEPT ![UserOf[c]] = Nobody]
  /\ IF inRoom[c] THEN GiveUpPlace(UserOf[c]) /\ Broadcast ELSE UNCHANGED <<places, unread>>
  /\ UNCHANGED <<at, client, writer, inRoom, disowned, mmVars, incoming>>

\* Mistake: only the registered connection leaves its room.
UnregisterCurrent(c) ==
  LET current == registered[UserOf[c]] = c IN
  /\ at = "loop" /\ reader[c] = "leaving"
  /\ reader' = [reader EXCEPT ![c] = "done"]
  /\ broken' = broken \cup {c}
  /\ closed' = IF current THEN closed \cup {c} ELSE closed
  /\ registered' = [registered EXCEPT ![UserOf[c]] = IF current THEN Nobody ELSE @]
  /\ IF inRoom[c] /\ current
     THEN GiveUpPlace(UserOf[c]) /\ Broadcast ELSE UNCHANGED <<places, unread>>
  /\ UNCHANGED <<at, client, writer, inRoom, disowned, mmVars, incoming>>

\* Only the registered connection is removed and its channel closed, but each
\* gives up a place; its RoomID stays.  ReadPump then closes the websocket.
Unregister(c) ==
  LET current == registered[UserOf[c]] = c IN
  /\ at = "loop" /\ reader[c] = "leaving"
  /\ reader' = [reader EXCEPT ![c] = "done"]
  /\ broken' = broken \cup {c}
  /\ closed' = IF current THEN closed \cup {c} ELSE closed
  /\ registered' = [registered EXCEPT ![UserOf[c]] = IF current THEN Nobody ELSE @]
  /\ IF inRoom[c] THEN GiveUpPlace(UserOf[c]) /\ Broadcast ELSE UNCHANGED <<places, unread>>
  /\ UNCHANGED <<at, client, writer, inRoom, disowned, mmVars, incoming>>

\* The hub takes the next message.
Takes(c, kind) ==
  /\ at = "loop" /\ incoming # << >>
  /\ Head(incoming) = [from |-> c, kind |-> kind]
  /\ incoming' = Tail(incoming)
  /\ UNCHANGED <<registered, closed, pumpVars>>

Silent == UNCHANGED <<at, client>>
Answer(c) == at' = "answer" /\ client' = c /\ UNCHANGED unread

TakePlace(c) ==
  /\ SumFunction(places) < Places
  /\ inRoom' = [inRoom EXCEPT ![c] = TRUE]
  /\ places' = [places EXCEPT ![UserOf[c]] = @ + 1]
  /\ disowned' = IF Gone(c) \/ inRoom[c] THEN disowned \cup {UserOf[c]} ELSE disowned

\* Seated, or made a spectator, or refused: "already in a room", "room is
\* full", "room not found".
HandleJoinRoom(c) ==
  /\ Takes(c, "join")
  /\ \/ ~inRoom[c] /\ TakePlace(c) /\ Broadcast /\ Silent
     \/ ~inRoom[c] /\ TakePlace(c) /\ Answer(c)
     \/ Answer(c) /\ UNCHANGED roomVars
  /\ UNCHANGED mmVars

HandleLeaveRoom(c) ==
  /\ Takes(c, "leave")
  /\ IF inRoom[c]
     THEN /\ inRoom' = [inRoom EXCEPT ![c] = FALSE]
          /\ GiveUpPlace(UserOf[c]) /\ Broadcast
     ELSE UNCHANGED <<inRoom, places, unread>>
  /\ Silent /\ UNCHANGED <<disowned, mmVars>>

\* ready, play_cards, pass_turn, chat, and what is unknown or cannot be
\* decoded: something the whole room hears of, an error, or nothing.
HandleMove(c) ==
  /\ Takes(c, "move")
  /\ \/ inRoom[c] /\ UNCHANGED places /\ Broadcast /\ Silent
     \/ Answer(c) /\ UNCHANGED places
     \/ Silent /\ UNCHANGED <<places, unread>>
  /\ UNCHANGED <<inRoom, disowned, mmVars>>

\* Put into the queue, or refused: "invalid ante level".
HandleAutoMatch(c) ==
  /\ Takes(c, "match")
  /\ \/ at' = "enqueue" /\ client' = c /\ UNCHANGED unread
     \/ Answer(c)
  /\ UNCHANGED <<roomVars, mmVars>>

\* client.Send <- data.
Reply ==
  /\ at = "answer" /\ CanSend(client)
  /\ Send(client)
  /\ at' = (IF client \in closed THEN "panic" ELSE "loop") /\ client' = Nobody
  /\ UNCHANGED <<registered, closed, pumpVars, roomVars, mmVars, incoming>>

\* RequestMatch: s.queue <- MatchRequest.
Enqueue ==
  /\ at = "enqueue" /\ Len(queue) < QueueCap
  /\ queue' = Append(queue, client)
  /\ at' = "loop" /\ client' = Nobody
  /\ UNCHANGED <<registered, closed, pumpVars, roomVars, waiting, mm, placing, unread, incoming>>

----------------------------------------------------------------------------
(* The matchmaker (module Matchmaking has it step by step). *)

AddToWaitList ==
  /\ Running /\ mm = "idle" /\ queue # << >>
  /\ waiting' = waiting \cup {Head(queue)} /\ queue' = Tail(queue)
  /\ UNCHANGED <<hubVars, pumpVars, roomVars, mm, placing, unread, incoming>>

\* A waiter that is in a room is dropped from the list.
Examine(c) ==
  /\ Running /\ mm = "idle" /\ c \in waiting
  /\ waiting' = waiting \ {c}
  /\ IF inRoom[c] THEN UNCHANGED <<mm, placing>> ELSE mm' = "place" /\ placing' = c
  /\ UNCHANGED <<hubVars, pumpVars, roomVars, queue, unread, incoming>>

Place ==
  /\ Running /\ mm = "place"
  /\ TakePlace(placing) /\ mm' = "announce"
  /\ UNCHANGED <<hubVars, pumpVars, queue, waiting, placing, unread, incoming>>

\* There is no seat: the waiter stays on the list.
PutOff ==
  /\ Running /\ mm = "place"
  /\ waiting' = waiting \cup {placing} /\ mm' = "idle" /\ placing' = Nobody
  /\ UNCHANGED <<hubVars, pumpVars, roomVars, queue, unread, incoming>>

\* Mistake: the match is announced through the hub's channel.
AnnounceThroughHub ==
  /\ Running /\ mm = "announce" /\ Len(incoming) < IncomingCap
  /\ incoming' = Append(incoming, [from |-> placing, kind |-> "move"])
  /\ mm' = "idle" /\ placing' = Nobody
  /\ UNCHANGED <<hubVars, pumpVars, roomVars, queue, waiting, unread>>

Announce ==
  /\ Running /\ mm = "announce" /\ CanSend(placing)
  /\ Send(placing)
  /\ at' = (IF placing \in closed THEN "panic" ELSE at)
  /\ mm' = "idle" /\ placing' = Nobody
  /\ UNCHANGED <<registered, closed, client, pumpVars, roomVars, queue, waiting, incoming>>

----------------------------------------------------------------------------
(* Callbacks of turn timers and of finished games: sendToUsers looks a      *)
(* client up under the hub's lock and sends without it.  The client it     *)
(* sends to is one that was registered, however long ago.                  *)

CallbackSends(c) ==
  /\ Running /\ reader[c] # "new"
  /\ unread' = IF c \in closed THEN unread ELSE [unread EXCEPT ![c] = Offered(@)]
  /\ at' = IF c \in closed THEN "panic" ELSE at
  /\ UNCHANGED <<registered, closed, client, pumpVars, roomVars, mmVars, incoming>>

----------------------------------------------------------------------------
Handle ==
  \E c \in Conn :
    HandleJoinRoom(c) \/ HandleLeaveRoom(c) \/ HandleMove(c) \/ HandleAutoMatch(c)

Next ==
  \/ \E c \in Conn :
       \/ Register(c) \/ Unregister(c) \/ Break(c)
       \/ \E kind \in Sends[c] : Read(c, kind)
       \/ ReadFails(c) \/ Write(c) \/ WriteFails(c) \/ WriterEnds(c)
       \/ Examine(c) \/ CallbackSends(c)
  \/ Handle \/ Reply \/ Enqueue
  \/ AddToWaitList \/ Place \/ PutOff \/ Announce

Spec == Init /\ [][Next]_vars

\* Goroutines run.  select starves none of the channels it reads from, and
\* whoever waits to send gets the place that a receiver makes.  Peers owe
\* nothing, but a write to one that does not read fails after ten seconds.
Fairness ==
  /\ \A c \in Conn :
       /\ SF_vars(Unregister(c))
       /\ WF_vars(ReadFails(c))
       /\ WF_vars(Write(c) \/ WriteFails(c) \/ WriterEnds(c))
  /\ WF_vars(Handle) /\ SF_vars(Reply \/ Enqueue)
  /\ SF_vars(AddToWaitList) /\ WF_vars(Place \/ PutOff) /\ SF_vars(Announce)

FairSpec == Spec /\ Fairness

----------------------------------------------------------------------------
(* Correctness. *)

HubTypeOK ==
  /\ registered \in [User -> Conn \cup {Nobody}]
  /\ reader \in [Conn -> {"new", "reading", "leaving", "done"}]
  /\ writer \in [Conn -> {"new", "running", "done"}]
  /\ broken \subseteq Conn /\ closed \subseteq Conn
  /\ unread \in [Conn -> 0..SendCap]
  /\ incoming \in Seq([from : Conn, kind : Kind]) /\ Len(incoming) <= IncomingCap
  /\ inRoom \in [Conn -> BOOLEAN] /\ places \in [User -> Nat] /\ disowned \subseteq User
  /\ at \in {"loop", "answer", "enqueue", "panic"}
  /\ client \in Conn \cup {Nobody} /\ (at \in {"answer", "enqueue"} => client \in Conn)
  /\ queue \in Seq(Conn) /\ Len(queue) <= QueueCap /\ waiting \subseteq Conn
  /\ mm \in {"idle", "place", "announce"}
  /\ placing \in Conn \cup {Nobody} /\ (mm # "idle" => placing \in Conn)

\* A connection is in the registry exactly as long as its channel is open: a
\* late Unregister of a connection that was replaced neither removes its
\* successor nor closes a channel twice, and a broadcast of the hub's, which
\* sends to the registered, never meets a closed channel.
RegistryOK ==
  /\ HubTypeOK
  /\ \A c \in Conn :
       /\ c \in closed <=> (reader[c] # "new" /\ registered[UserOf[c]] # c)
       /\ registered[UserOf[c]] = c => ~Gone(c)

\* However connections of a user follow and overlap each other: when the last
\* of them is unregistered the user has no place left in the room, unless one
\* was taken for a connection that was gone already (a message handled, or a
\* match made, after its Unregister) or twice for the same one (a match made
\* for a client that had joined meanwhile).
NoGhostSeats ==
  \A u \in User \ disowned :
    (\A c \in Conn : UserOf[c] = u => reader[c] \in {"new", "done"}) => places[u] = 0

\* The hub or the matchmaker waits to send to a client whose WritePump has
\* returned.
DeadWriter(c) == c \notin closed /\ writer[c] = "done" /\ unread[c] = SendCap
Stuck ==
  \/ at = "answer" /\ DeadWriter(client)
  \/ at = "enqueue" /\ Len(queue) = QueueCap /\ mm = "announce" /\ DeadWriter(placing)

\* The hub goroutine, on which everything depends, waits for clients, for the
\* matchmaker and, through it, for clients again.  It always comes back to its
\* loop but for one reason: a Send channel is full and nobody will read it.
HubGoesOn == []<>(at \in {"loop", "panic"} \/ Stuck)

\* A connection that was replaced or has broken takes both its goroutines
\* with it, the reader through the hub.
ConnectionsWindUp ==
  []<>(at = "panic" \/ Stuck \/
       \A c \in closed \cup broken : reader[c] = "done" /\ writer[c] = "done")
=============================================================================
