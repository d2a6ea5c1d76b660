----------------------------- MODULE HubProofs -----------------------------
(***************************************************************************)
(* Theorems about the hub's registry, for any users, any number of         *)
(* connections of each, and channels and rooms of any capacity.            *)
(***************************************************************************)
EXTENDS Hub, FiniteSetTheorems, TLAPS

\* The registry against the connections' goroutines and channels: who is
\* registered is registered under his own user and has not been unregistered;
\* who has been started and is not registered has a closed channel.
Registry ==
  \A c \in Conn :
    /\ c \in closed <=> (reader[c] # "new" /\ registered[UserOf[c]] # c)
    /\ registered[UserOf[c]] = c => reader[c] \in {"reading", "leaving"}

OwnConnections ==
  \A u \in User : registered[u] # Nobody => UserOf[registered[u]] = u

IInv == HubTypeOK /\ Registry /\ OwnConnections

TypedPumps ==
  /\ registered \in [User -> Conn \cup {Nobody}]
  /\ reader \in [Conn -> {"new", "reading", "leaving", "done"}]
  /\ writer \in [Conn -> {"new", "running", "done"}]
  /\ broken \subseteq Conn /\ closed \subseteq Conn

TypedRoom ==
  inRoom \in [Conn -> BOOLEAN] /\ places \in [User -> Nat] /\ disowned \subseteq User

TypedHub ==
  /\ at \in {"loop", "answer", "enqueue", "panic"}
  /\ client \in Conn \cup {Nobody} /\ (at \in {"answer", "enqueue"} => client \in Conn)

TypedChannels ==
  /\ unread \in [Conn -> 0..SendCap]
  /\ incoming \in Seq([from : Conn, kind : Kind]) /\ Len(incoming) <= IncomingCap

TypedMatchmaker ==
  /\ queue \in Seq(Conn) /\ Len(queue) <= QueueCap /\ waiting \subseteq Conn
  /\ mm \in {"idle", "place", "announce"}
  /\ placing \in Conn \cup {Nobody} /\ (mm # "idle" => placing \in Conn)

LEMMA TypeParts ==
  HubTypeOK <=> TypedPumps /\ TypedRoom /\ TypedHub /\ TypedChannels /\ TypedMatchmaker
  BY DEF HubTypeOK, TypedPumps, TypedRoom, TypedHub, TypedChannels, TypedMatchmaker

\* The same of the state after a step.
LEMMA NextTypeParts ==
  HubTypeOK' <=> TypedPumps' /\ TypedRoom' /\ TypedHub' /\ TypedChannels' /\ TypedMatchmaker'
  BY DEF HubTypeOK, TypedPumps, TypedRoom, TypedHub, TypedChannels, TypedMatchmaker

LEMMA HubInit == Init => IInv
<1> SUFFICES ASSUME Init PROVE IInv
  OBVIOUS
<1> USE ConnAssumption DEF Init
<1>1. TypedPumps BY DEF TypedPumps
<1>2. TypedRoom BY DEF TypedRoom
<1>3. TypedHub BY DEF TypedHub
<1>4. TypedChannels
  <2>1. 0 \in 0..SendCap /\ 0 <= IncomingCap OBVIOUS
  <2> QED BY <2>1 DEF TypedChannels
<1>5. TypedMatchmaker
  <2>1. 0 <= QueueCap OBVIOUS
  <2> QED BY <2>1 DEF TypedMatchmaker
<1>6. Registry /\ OwnConnections BY DEF Registry, OwnConnections
<1> QED BY <1>1, <1>2, <1>3, <1>4, <1>5, <1>6, TypeParts DEF IInv

----------------------------------------------------------------------------
(* The registry. *)

LEMMA RegisterKeepsRegistry ==
  ASSUME IInv, NEW c \in Conn, Register(c) PROVE Registry' /\ OwnConnections'
<1> USE ConnAssumption DEF IInv, HubTypeOK, Registry, OwnConnections
<1> DEFINE user == UserOf[c]
           old == registered[user]
<1>1. /\ registered' = [registered EXCEPT ![user] = c]
      /\ reader' = [reader EXCEPT ![c] = "reading"]
      /\ closed' = IF old = Nobody THEN closed ELSE closed \cup {old}
      /\ reader[c] = "new"
  BY DEF Register
<1>2. user \in User /\ old # c /\ c \notin closed BY <1>1
<1>3. OwnConnections' BY <1>1, <1>2
<1>4. ASSUME NEW d \in Conn
      PROVE  /\ d \in closed' <=> (reader'[d] # "new" /\ registered'[UserOf[d]] # d)
             /\ registered'[UserOf[d]] = d => reader'[d] \in {"reading", "leaving"}
  <2>1. CASE d = c BY <1>1, <1>2, <2>1
  <2>2. CASE d # c /\ UserOf[d] = user
    <3>1. registered'[UserOf[d]] = c /\ reader'[d] = reader[d] BY <1>1, <1>2, <2>2
    <3> QED BY <1>1, <2>2, <3>1
  <2>3. CASE UserOf[d] # user
    <3>1. registered'[UserOf[d]] = registered[UserOf[d]] /\ reader'[d] = reader[d]
      BY <1>1, <1>2, <2>3
    <3>2. old # d BY <1>2, <2>3
    <3> QED BY <1>1, <3>1, <3>2
  <2> QED BY <2>1, <2>2, <2>3
<1> QED BY <1>3, <1>4

LEMMA UnregisterKeepsRegistry ==
  ASSUME IInv, NEW c \in Conn, Unregister(c) PROVE Registry' /\ OwnConnections'
<1> USE ConnAssumption DEF IInv, HubTypeOK, Registry, OwnConnections
<1> DEFINE user == UserOf[c]
           current == registered[user] = c
<1>1. /\ registered' = [registered EXCEPT ![user] = IF current THEN Nobody ELSE registered[user]]
      /\ reader' = [reader EXCEPT ![c] = "done"]
      /\ closed' = IF current THEN closed \cup {c} ELSE closed
      /\ reader[c] = "leaving"
  BY DEF Unregister
<1>2. user \in User /\ c # Nobody BY <1>1
<1>3. OwnConnections' BY <1>1, <1>2
<1>4. ASSUME NEW d \in Conn
      PROVE  /\ d \in closed' <=> (reader'[d] # "new" /\ registered'[UserOf[d]] # d)
             /\ registered'[UserOf[d]] = d => reader'[d] \in {"reading", "leaving"}
  <2>1. CASE d = c BY <1>1, <1>2, <2>1
  <2>2. CASE d # c
    <3>1. reader'[d] = reader[d] BY <1>1, <2>2
    <3>2. registered'[UserOf[d]] = d <=> registered[UserOf[d]] = d
      <4>1. d # Nobody /\ UserOf[d] \in User OBVIOUS
      <4> QED BY <1>1, <1>2, <2>2, <4>1
    <3> QED BY <1>1, <2>2, <3>1, <3>2
  <2> QED BY <2>1, <2>2
<1> QED BY <1>3, <1>4

LEMMA ReadFailsKeepsRegistry ==
  ASSUME IInv, NEW c \in Conn, ReadFails(c) PROVE Registry' /\ OwnConnections'
<1>1. /\ registered' = registered /\ closed' = closed
      /\ reader' = [reader EXCEPT ![c] = "leaving"] /\ reader[c] = "reading"
  BY DEF ReadFails, hubVars
<1> QED BY <1>1 DEF IInv, HubTypeOK, Registry, OwnConnections

\* Every other step leaves registry, readers and closed channels alone.
LEMMA OthersLeaveRegistry ==
  ASSUME NEW c \in Conn,
         \/ Break(c) \/ (\E kind \in Sends[c] : Read(c, kind))
         \/ Write(c) \/ WriteFails(c) \/ WriterEnds(c) \/ Examine(c) \/ CallbackSends(c)
         \/ HandleJoinRoom(c) \/ HandleLeaveRoom(c) \/ HandleMove(c) \/ HandleAutoMatch(c)
  PROVE  UNCHANGED <<registered, reader, closed>>
  BY DEF Break, Read, Write, WriteFails, WriterEnds, Examine, CallbackSends, Takes,
     HandleJoinRoom, HandleLeaveRoom, HandleMove, HandleAutoMatch, hubVars, pumpVars

LEMMA GlobalStepsLeaveRegistry ==
  ASSUME Reply \/ Enqueue \/ AddToWaitList \/ Place \/ PutOff \/ Announce \/ UNCHANGED vars
  PROVE  UNCHANGED <<registered, reader, closed>>
  BY DEF Reply, Enqueue, AddToWaitList, Place, PutOff, Announce, hubVars, pumpVars, vars

LEMMA RegistryStep == IInv /\ [Next]_vars => Registry' /\ OwnConnections'
<1> SUFFICES ASSUME IInv, [Next]_vars PROVE Registry' /\ OwnConnections'
  OBVIOUS
<1>1. CASE UNCHANGED <<registered, reader, closed>>
  BY <1>1 DEF IInv, Registry, OwnConnections
<1>2. CASE \E c \in Conn : Register(c) \/ Unregister(c) \/ ReadFails(c)
  BY <1>2, RegisterKeepsRegistry, UnregisterKeepsRegistry, ReadFailsKeepsRegistry
<1> QED BY <1>1, <1>2, OthersLeaveRegistry, GlobalStepsLeaveRegistry DEF Next, Handle

----------------------------------------------------------------------------
(* Types. *)

LEMMA SendingIsTyped ==
  ASSUME TypedChannels, NEW c \in Conn, CanSend(c), Send(c)
  PROVE  unread' \in [Conn -> 0..SendCap]
<1>1. CASE c \in closed BY <1>1 DEF Send, TypedChannels
<1>2. CASE c \notin closed
  <2>1. unread[c] \in 0..SendCap /\ unread[c] < SendCap BY <1>2 DEF CanSend, TypedChannels
  <2>2. unread[c] + 1 \in 0..SendCap BY <2>1, ConnAssumption
  <2> QED BY <1>2, <2>2 DEF Send, TypedChannels
<1> QED BY <1>1, <1>2

LEMMA OfferingIsTyped ==
  ASSUME NEW n \in 0..SendCap PROVE Offered(n) \in 0..SendCap
  BY ConnAssumption DEF Offered

LEMMA BroadcastIsTyped ==
  ASSUME TypedChannels, Broadcast PROVE unread' \in [Conn -> 0..SendCap]
  BY OfferingIsTyped DEF Broadcast, TypedChannels

LEMMA TakingIsTyped ==
  ASSUME TypedRoom, NEW c \in Conn, TakePlace(c) PROVE TypedRoom'
<1>1. UserOf[c] \in User /\ places[UserOf[c]] + 1 \in Nat BY ConnAssumption DEF TypedRoom
<1>2. places' \in [User -> Nat] BY <1>1 DEF TypedRoom, TakePlace
<1>3. inRoom' \in [Conn -> BOOLEAN]
  <2>1. inRoom' = [inRoom EXCEPT ![c] = TRUE] BY DEF TakePlace
  <2> QED BY <2>1 DEF TypedRoom
<1>4. disowned' \subseteq User
  <2>1. disowned' \in {disowned, disowned \cup {UserOf[c]}} BY DEF TakePlace
  <2> QED BY <1>1, <2>1 DEF TypedRoom
<1> QED BY <1>2, <1>3, <1>4 DEF TypedRoom

LEMMA GivingUpIsTyped ==
  ASSUME TypedRoom, NEW u \in User, GiveUpPlace(u) PROVE places' \in [User -> Nat]
<1>1. (IF places[u] > 0 THEN places[u] - 1 ELSE 0) \in Nat BY DEF TypedRoom
<1> QED BY <1>1 DEF TypedRoom, GiveUpPlace

LEMMA PumpsAreTyped ==
  ASSUME HubTypeOK, NEW c \in Conn,
         \/ Break(c) \/ ReadFails(c) \/ Write(c) \/ WriteFails(c) \/ WriterEnds(c)
         \/ Register(c) \/ CallbackSends(c) \/ \E kind \in Sends[c] : Read(c, kind)
  PROVE  HubTypeOK'
<1> USE ConnAssumption DEF hubVars, pumpVars, roomVars, mmVars
<1>0. TypedPumps /\ TypedRoom /\ TypedHub /\ TypedChannels /\ TypedMatchmaker BY TypeParts
<1>1. CASE Break(c) BY <1>1 DEF Break, HubTypeOK
<1>2. CASE ReadFails(c) BY <1>2 DEF ReadFails, HubTypeOK
<1>3. CASE Write(c)
  <2>1. unread[c] - 1 \in 0..SendCap BY <1>3 DEF Write, HubTypeOK
  <2> QED BY <1>3, <2>1 DEF Write, HubTypeOK
<1>4. CASE WriteFails(c) BY <1>4 DEF WriteFails, HubTypeOK
<1>5. CASE WriterEnds(c) BY <1>5 DEF WriterEnds, HubTypeOK
<1>6. CASE Register(c)
  <2>1. TypedPumps' BY <1>6 DEF Register, HubTypeOK, TypedPumps
  <2>2. UNCHANGED <<inRoom, places, disowned, at, client, unread, incoming, queue, waiting, mm, placing>>
    BY <1>6 DEF Register
  <2> QED BY <1>0, <2>1, <2>2, NextTypeParts DEF TypedRoom, TypedHub, TypedChannels, TypedMatchmaker
<1>7. CASE CallbackSends(c)
  <2>1. unread' \in [Conn -> 0..SendCap]
    BY <1>7, OfferingIsTyped DEF CallbackSends, HubTypeOK
  <2>2. TypedHub' BY <1>7 DEF CallbackSends, TypedHub, HubTypeOK
  <2>3. UNCHANGED <<registered, reader, writer, broken, closed, inRoom, places, disowned,
                    incoming, queue, waiting, mm, placing>>
    BY <1>7 DEF CallbackSends
  <2> QED BY <1>0, <2>1, <2>2, <2>3, NextTypeParts DEF TypedPumps, TypedRoom, TypedChannels, TypedMatchmaker
<1>8. CASE \E kind \in Sends[c] : Read(c, kind)
  <2>1. PICK kind \in Kind : Read(c, kind) BY <1>8
  <2>2. TypedChannels' BY <2>1 DEF Read, TypedChannels, HubTypeOK
  <2>3. UNCHANGED <<hubVars, pumpVars, roomVars, mmVars>> BY <2>1 DEF Read
  <2> QED BY <1>0, <2>2, <2>3, NextTypeParts DEF TypedPumps, TypedRoom, TypedHub, TypedMatchmaker
<1> QED BY <1>1, <1>2, <1>3, <1>4, <1>5, <1>6, <1>7, <1>8

LEMMA UnregisterIsTyped ==
  ASSUME HubTypeOK, NEW c \in Conn, Unregister(c) PROVE HubTypeOK'
<1> USE ConnAssumption
<1>1. TypedPumps /\ TypedRoom /\ TypedHub /\ TypedChannels /\ TypedMatchmaker BY TypeParts
<1>2. TypedPumps' BY <1>1 DEF Unregister, TypedPumps
<1>3. UNCHANGED <<at, client, inRoom, disowned, mmVars, incoming>> BY DEF Unregister
<1>4. places' \in [User -> Nat] /\ unread' \in [Conn -> 0..SendCap]
  <2>1. CASE inRoom[c] BY <1>1, <2>1, GivingUpIsTyped, BroadcastIsTyped DEF Unregister
  <2>2. CASE ~inRoom[c] BY <1>1, <2>2 DEF Unregister, TypedRoom, TypedChannels
  <2> QED BY <2>1, <2>2
<1> QED
  BY <1>1, <1>2, <1>3, <1>4, NextTypeParts
     DEF TypedRoom, TypedHub, TypedChannels, TypedMatchmaker, mmVars

LEMMA HandlersAreTyped ==
  ASSUME HubTypeOK, NEW c \in Conn,
         HandleJoinRoom(c) \/ HandleLeaveRoom(c) \/ HandleMove(c) \/ HandleAutoMatch(c)
  PROVE  HubTypeOK'
<1> USE ConnAssumption
<1>1. TypedPumps /\ TypedRoom /\ TypedHub /\ TypedChannels /\ TypedMatchmaker BY TypeParts
<1>2. /\ incoming # << >> /\ incoming' = Tail(incoming) /\ at = "loop"
      /\ UNCHANGED <<registered, closed, reader, writer, broken, queue, waiting, mm, placing>>
  BY DEF HandleJoinRoom, HandleLeaveRoom, HandleMove, HandleAutoMatch, Takes, pumpVars, mmVars
<1>3. incoming' \in Seq([from : Conn, kind : Kind]) /\ Len(incoming') <= IncomingCap
  BY <1>1, <1>2 DEF TypedChannels
<1>4. TypedHub' /\ TypedRoom' /\ unread' \in [Conn -> 0..SendCap]
  <2>1. Silent => TypedHub' BY <1>1 DEF Silent, TypedHub
  <2>2. Answer(c) => TypedHub' /\ unread' \in [Conn -> 0..SendCap]
    BY <1>1 DEF Answer, TypedHub, TypedChannels
  <2>3. UNCHANGED unread => unread' \in [Conn -> 0..SendCap] BY <1>1 DEF TypedChannels
  <2>4. CASE HandleJoinRoom(c)
    BY <1>1, <2>1, <2>2, <2>4, TakingIsTyped, BroadcastIsTyped DEF HandleJoinRoom, roomVars, TypedRoom
  <2>5. CASE HandleLeaveRoom(c)
    <3>1. CASE inRoom[c]
      BY <1>1, <2>1, <2>5, <3>1, GivingUpIsTyped, BroadcastIsTyped DEF HandleLeaveRoom, TypedRoom
    <3>2. CASE ~inRoom[c]
      BY <1>1, <2>1, <2>3, <2>5, <3>2 DEF HandleLeaveRoom, TypedRoom
    <3> QED BY <3>1, <3>2
  <2>6. CASE HandleMove(c)
    BY <1>1, <2>1, <2>2, <2>3, <2>6, BroadcastIsTyped DEF HandleMove, TypedRoom
  <2>7. CASE HandleAutoMatch(c)
    BY <1>1, <2>2, <2>3, <2>7 DEF HandleAutoMatch, roomVars, TypedRoom, TypedHub
  <2> QED BY <2>4, <2>5, <2>6, <2>7
<1> QED BY <1>1, <1>2, <1>3, <1>4, NextTypeParts DEF TypedPumps, TypedChannels, TypedMatchmaker

LEMMA MatchingIsTyped ==
  ASSUME HubTypeOK,
         \/ Reply \/ Enqueue \/ AddToWaitList \/ Place \/ PutOff \/ Announce
         \/ \E c \in Conn : Examine(c)
  PROVE  HubTypeOK'
<1> USE ConnAssumption DEF pumpVars, roomVars, hubVars, mmVars
<1>1. TypedPumps /\ TypedRoom /\ TypedHub /\ TypedChannels /\ TypedMatchmaker BY TypeParts
<1>2. CASE Reply
  <2>1. client \in Conn BY <1>1, <1>2 DEF Reply, TypedHub
  <2>2. unread' \in [Conn -> 0..SendCap] BY <1>1, <1>2, <2>1, SendingIsTyped DEF Reply
  <2>3. TypedHub' BY <1>2 DEF Reply, TypedHub
  <2>4. UNCHANGED <<registered, closed, pumpVars, roomVars, mmVars, incoming>> BY <1>2 DEF Reply
  <2> QED
    BY <1>1, <2>2, <2>3, <2>4, NextTypeParts DEF TypedPumps, TypedRoom, TypedChannels, TypedMatchmaker
<1>3. CASE Enqueue
  <2>1. client \in Conn BY <1>1, <1>3 DEF Enqueue, TypedHub
  <2>2. TypedMatchmaker' BY <1>1, <1>3, <2>1 DEF Enqueue, TypedMatchmaker
  <2>3. TypedHub' BY <1>3 DEF Enqueue, TypedHub
  <2>4. UNCHANGED <<registered, closed, pumpVars, roomVars, unread, incoming>> BY <1>3 DEF Enqueue
  <2> QED BY <1>1, <2>2, <2>3, <2>4, NextTypeParts DEF TypedPumps, TypedRoom, TypedChannels
<1>4. CASE AddToWaitList
  <2>1. TypedMatchmaker' BY <1>1, <1>4 DEF AddToWaitList, TypedMatchmaker
  <2> QED BY <1>1, <1>4, <2>1, NextTypeParts DEF AddToWaitList, TypedPumps, TypedRoom, TypedHub, TypedChannels
<1>5. CASE Place
  <2>1. placing \in Conn BY <1>1, <1>5 DEF Place, TypedMatchmaker
  <2>2. TypedRoom' BY <1>1, <1>5, <2>1, TakingIsTyped DEF Place
  <2>3. TypedMatchmaker' BY <1>1, <1>5, <2>1 DEF Place, TypedMatchmaker
  <2> QED BY <1>1, <1>5, <2>2, <2>3, NextTypeParts DEF Place, TypedPumps, TypedHub, TypedChannels
<1>6. CASE PutOff
  <2>1. placing \in Conn BY <1>1, <1>6 DEF PutOff, TypedMatchmaker
  <2>2. TypedMatchmaker' BY <1>1, <1>6, <2>1 DEF PutOff, TypedMatchmaker
  <2> QED BY <1>1, <1>6, <2>2, NextTypeParts DEF PutOff, TypedPumps, TypedRoom, TypedHub, TypedChannels
<1>7. CASE Announce
  <2>1. placing \in Conn BY <1>1, <1>7 DEF Announce, TypedMatchmaker
  <2>2. unread' \in [Conn -> 0..SendCap] BY <1>1, <1>7, <2>1, SendingIsTyped DEF Announce
  <2>3. TypedMatchmaker' BY <1>1, <1>7 DEF Announce, TypedMatchmaker
  <2>4. TypedHub' BY <1>1, <1>7 DEF Announce, TypedHub
  <2>5. UNCHANGED <<registered, closed, pumpVars, roomVars, incoming>> BY <1>7 DEF Announce
  <2> QED BY <1>1, <2>2, <2>3, <2>4, <2>5, NextTypeParts DEF TypedPumps, TypedRoom, TypedChannels
<1>8. CASE \E c \in Conn : Examine(c)
  <2>1. PICK c \in Conn : Examine(c) BY <1>8
  <2>2. TypedMatchmaker' BY <1>1, <2>1 DEF Examine, TypedMatchmaker
  <2> QED BY <1>1, <2>1, <2>2, NextTypeParts DEF Examine, TypedPumps, TypedRoom, TypedHub, TypedChannels
<1> QED BY <1>2, <1>3, <1>4, <1>5, <1>6, <1>7, <1>8

LEMMA HubStep == IInv /\ [Next]_vars => IInv'
<1> SUFFICES ASSUME IInv, [Next]_vars PROVE HubTypeOK'
  BY RegistryStep DEF IInv
<1>1. HubTypeOK BY DEF IInv
<1>2. CASE Next
  BY <1>1, <1>2, PumpsAreTyped, UnregisterIsTyped, HandlersAreTyped, MatchingIsTyped DEF Next, Handle
<1>3. CASE UNCHANGED vars
  BY <1>1, <1>3 DEF HubTypeOK, vars, hubVars, pumpVars, roomVars, mmVars
<1> QED BY <1>2, <1>3

----------------------------------------------------------------------------

\* The inductive invariant: types, the registry against goroutines and
\* channels, and everybody under his own user.
THEOREM HubInvariance == Spec => []IInv
<1> QED BY HubInit, HubStep, PTL DEF Spec

\* A connection is registered exactly as long as its channel is open, however
\* many connections a user has and in whatever order they end.
THEOREM RegistryRight == Spec => []RegistryOK
<1>1. IInv => RegistryOK BY DEF IInv, RegistryOK, Registry, Gone
<1> QED BY <1>1, HubInvariance, PTL

----------------------------------------------------------------------------
(* Places in the room. *)

\* Everything the hub and the matchmaker deal with comes from a connection
\* that has been started.
Started ==
  /\ \A c \in Conn : inRoom[c] => reader[c] # "new"
  /\ \A k \in 1 .. Len(incoming) : reader[incoming[k].from] # "new"
  /\ client # Nobody => reader[client] # "new"
  /\ \A k \in 1 .. Len(queue) : reader[queue[k]] # "new"
  /\ \A c \in waiting : reader[c] # "new"
  /\ placing # Nobody => reader[placing] # "new"

\* The connections that will give a place of the user's back.
Present(u) == {c \in Conn : UserOf[c] = u /\ inRoom[c] /\ reader[c] # "done"}

\* A place is never taken but for such a connection, and for each but once.
Accounted ==
  \A u \in User :
    /\ IsFiniteSet(Present(u))
    /\ u \notin disowned => places[u] <= Cardinality(Present(u))

PInv == Started /\ Accounted

LEMMA PlacesInit == Init => PInv
<1> SUFFICES ASSUME Init PROVE PInv OBVIOUS
<1>1. Started BY DEF Init, Started
<1>2. \A u \in User : Present(u) = {} /\ places[u] = 0 BY DEF Init, Present
<1> QED BY <1>1, <1>2, FS_EmptySet DEF PInv, Accounted

\* ReadPump never starts anew.
LEMMA ReadersGoOn ==
  ASSUME IInv, [Next]_vars, NEW c \in Conn, reader[c] # "new" PROVE reader'[c] # "new"
<1>1. CASE UNCHANGED reader BY <1>1
<1>2. ASSUME NEW d \in Conn, Register(d) \/ Unregister(d) \/ ReadFails(d) PROVE reader'[c] # "new"
  <2>1. \E x \in {"reading", "leaving", "done"} : reader' = [reader EXCEPT ![d] = x]
    BY <1>2 DEF Register, Unregister, ReadFails
  <2> QED BY <2>1 DEF IInv, HubTypeOK
<1> QED BY <1>1, <1>2, OthersLeaveRegistry, GlobalStepsLeaveRegistry DEF Next, Handle

LEMMA PresentIsFinite ==
  ASSUME Accounted, NEW u \in User
  PROVE  IsFiniteSet(Present(u)) /\ Cardinality(Present(u)) \in Nat
  BY FS_CardinalityType DEF Accounted

LEMMA TakingIsAccounted ==
  ASSUME IInv, Accounted, NEW c \in Conn, TakePlace(c), UNCHANGED reader
  PROVE  Accounted'
<1> DEFINE user == UserOf[c]
<1>1. /\ inRoom' = [inRoom EXCEPT ![c] = TRUE]
      /\ places' = [places EXCEPT ![user] = @ + 1]
      /\ disowned' = IF Gone(c) \/ inRoom[c] THEN disowned \cup {user} ELSE disowned
  BY DEF TakePlace
<1>2. /\ user \in User /\ inRoom \in [Conn -> BOOLEAN] /\ places \in [User -> Nat]
  BY ConnAssumption DEF IInv, HubTypeOK
<1> SUFFICES ASSUME NEW u \in User
             PROVE  /\ IsFiniteSet(Present(u)')
                    /\ u \notin disowned' => places'[u] <= Cardinality(Present(u)')
  BY DEF Accounted
<1>3. CASE u # user
  <2>1. Present(u)' = Present(u) BY <1>1, <1>2, <1>3 DEF Present
  <2>2. places'[u] = places[u] /\ (u \in disowned => u \in disowned') BY <1>1, <1>2, <1>3
  <2> QED BY <2>1, <2>2 DEF Accounted
<1>4. CASE u = user /\ (Gone(c) \/ inRoom[c])
  <2>1. Present(u)' = Present(u) BY <1>1, <1>2, <1>4 DEF Present, Gone
  <2>2. u \in disowned' BY <1>1, <1>4
  <2> QED BY <2>1, <2>2, PresentIsFinite
<1>5. CASE u = user /\ ~Gone(c) /\ ~inRoom[c]
  <2>1. Present(u)' = Present(u) \cup {c} /\ c \notin Present(u)
    BY <1>1, <1>2, <1>5 DEF Present, Gone
  <2>2. places'[u] = places[u] + 1 /\ disowned' = disowned BY <1>1, <1>2, <1>5
  <2>3. /\ IsFiniteSet(Present(u) \cup {c})
        /\ Cardinality(Present(u) \cup {c}) = Cardinality(Present(u)) + 1
    BY <2>1, PresentIsFinite, FS_AddElement
  <2>4. u \notin disowned => places[u] <= Cardinality(Present(u)) BY DEF Accounted
  <2> QED BY <1>2, <2>1, <2>2, <2>3, <2>4, PresentIsFinite
<1> QED BY <1>3, <1>4, <1>5

LEMMA GivingUpIsAccounted ==
  ASSUME IInv, Accounted, NEW c \in Conn, GiveUpPlace(UserOf[c]), UNCHANGED disowned,
         \A u \in User : Present(u)' = Present(u) \ {c}
  PROVE  Accounted'
<1> DEFINE user == UserOf[c]
<1>1. user \in User /\ places \in [User -> Nat] BY ConnAssumption DEF IInv, HubTypeOK
<1>2. /\ places'[user] = IF places[user] > 0 THEN places[user] - 1 ELSE 0
      /\ \A u \in User \ {user} : places'[u] = places[u]
  BY <1>1 DEF GiveUpPlace
<1> SUFFICES ASSUME NEW u \in User
             PROVE  /\ IsFiniteSet(Present(u)')
                    /\ u \notin disowned' => places'[u] <= Cardinality(Present(u)')
  BY DEF Accounted
<1>3. Present(u)' = Present(u) \ {c} /\ disowned' = disowned OBVIOUS
<1>4. u \notin disowned => places[u] <= Cardinality(Present(u)) BY DEF Accounted
<1>5. CASE u # user
  <2>1. Present(u)' = Present(u) BY <1>3, <1>5 DEF Present
  <2> QED BY <1>2, <1>3, <1>4, <1>5, <2>1, PresentIsFinite
<1>6. CASE u = user
  <2>1. /\ IsFiniteSet(Present(u) \ {c})
        /\ Cardinality(Present(u) \ {c}) =
             IF c \in Present(u) THEN Cardinality(Present(u)) - 1 ELSE Cardinality(Present(u))
    BY PresentIsFinite, FS_RemoveElement
  <2>2. Cardinality(Present(u) \ {c}) \in Nat BY <2>1, FS_CardinalityType
  <2> QED BY <1>1, <1>2, <1>3, <1>4, <1>6, <2>1, <2>2, PresentIsFinite
<1> QED BY <1>5, <1>6

LEMMA LeavingIsAccounted ==
  ASSUME IInv, Accounted, NEW c \in Conn, Unregister(c) \/ HandleLeaveRoom(c) PROVE Accounted'
<1>1. inRoom \in [Conn -> BOOLEAN] /\ reader \in [Conn -> {"new", "reading", "leaving", "done"}]
  BY DEF IInv, HubTypeOK
<1>2. CASE Unregister(c) /\ inRoom[c]
  <2>1. /\ reader' = [reader EXCEPT ![c] = "done"] /\ inRoom' = inRoom
        /\ disowned' = disowned /\ GiveUpPlace(UserOf[c])
    BY <1>2 DEF Unregister
  <2>2. \A u \in User : Present(u)' = Present(u) \ {c} BY <1>1, <2>1 DEF Present
  <2> QED BY <2>1, <2>2, GivingUpIsAccounted
<1>3. CASE Unregister(c) /\ ~inRoom[c]
  <2>1. /\ reader' = [reader EXCEPT ![c] = "done"] /\ inRoom' = inRoom
        /\ disowned' = disowned /\ places' = places
    BY <1>3 DEF Unregister
  <2>2. \A u \in User : Present(u)' = Present(u) BY <1>1, <1>3, <2>1 DEF Present
  <2> QED BY <2>1, <2>2 DEF Accounted
<1>4. CASE HandleLeaveRoom(c) /\ inRoom[c]
  <2>1. /\ inRoom' = [inRoom EXCEPT ![c] = FALSE] /\ reader' = reader
        /\ disowned' = disowned /\ GiveUpPlace(UserOf[c])
    BY <1>4 DEF HandleLeaveRoom, Takes, pumpVars
  <2>2. \A u \in User : Present(u)' = Present(u) \ {c} BY <1>1, <2>1 DEF Present
  <2> QED BY <2>1, <2>2, GivingUpIsAccounted
<1>5. CASE HandleLeaveRoom(c) /\ ~inRoom[c]
  <2>1. UNCHANGED <<inRoom, reader, disowned, places>>
    BY <1>5 DEF HandleLeaveRoom, Takes, pumpVars
  <2> QED BY <2>1 DEF Accounted, Present
<1> QED BY <1>2, <1>3, <1>4, <1>5

LEMMA ReadersAreAccounted ==
  ASSUME IInv, Accounted, Started, NEW c \in Conn, Register(c) \/ ReadFails(c) PROVE Accounted'
<1>1. UNCHANGED <<inRoom, places, disowned>> BY DEF Register, ReadFails, roomVars
<1>2. \A u \in User : Present(u)' = Present(u)
  <2>1. CASE Register(c)
    <3>1. reader' = [reader EXCEPT ![c] = "reading"] /\ reader[c] = "new" BY <2>1 DEF Register
    <3>2. ~inRoom[c] BY <3>1 DEF Started
    <3> QED BY <1>1, <3>1, <3>2 DEF Present, IInv, HubTypeOK
  <2>2. CASE ReadFails(c)
    <3>1. reader' = [reader EXCEPT ![c] = "leaving"] /\ reader[c] = "reading" BY <2>2 DEF ReadFails
    <3> QED BY <1>1, <3>1 DEF Present, IInv, HubTypeOK
  <2> QED BY <2>1, <2>2
<1> QED BY <1>1, <1>2 DEF Accounted

\* The message the hub takes is a started connection's.
LEMMA TakenIsStarted ==
  ASSUME IInv, Started, NEW c \in Conn, NEW kind, Takes(c, kind) PROVE reader[c] # "new"
<1>1. incoming # << >> /\ incoming \in Seq([from : Conn, kind : Kind]) /\ Head(incoming).from = c
  BY DEF Takes, IInv, HubTypeOK
<1>2. 1 \in 1 .. Len(incoming) /\ Head(incoming) = incoming[1] BY <1>1
<1> QED BY <1>1, <1>2 DEF Started

LEMMA AccountedStep == IInv /\ PInv /\ [Next]_vars => Accounted'
<1> SUFFICES ASSUME IInv, Started, Accounted, [Next]_vars PROVE Accounted' BY DEF PInv
<1>1. CASE UNCHANGED <<reader, roomVars>> BY <1>1 DEF roomVars, Accounted, Present
<1>2. ASSUME NEW c \in Conn,
             \/ Break(c) \/ (\E kind \in Sends[c] : Read(c, kind)) \/ Write(c) \/ WriteFails(c)
             \/ WriterEnds(c) \/ Examine(c) \/ CallbackSends(c) \/ HandleMove(c) \/ HandleAutoMatch(c)
      PROVE  UNCHANGED <<reader, roomVars>>
  BY <1>2 DEF Break, Read, Write, WriteFails, WriterEnds, Examine, CallbackSends, HandleMove,
     HandleAutoMatch, Takes, pumpVars, roomVars
<1>3. ASSUME Reply \/ Enqueue \/ AddToWaitList \/ PutOff \/ Announce \/ UNCHANGED vars
      PROVE  UNCHANGED <<reader, roomVars>>
  BY <1>3 DEF Reply, Enqueue, AddToWaitList, PutOff, Announce, vars, pumpVars, roomVars
<1>4. ASSUME NEW c \in Conn, HandleJoinRoom(c) PROVE Accounted'
  <2>1. reader' = reader BY <1>4 DEF HandleJoinRoom, Takes, pumpVars
  <2>2. CASE TakePlace(c) BY <2>1, <2>2, TakingIsAccounted
  <2>3. CASE UNCHANGED roomVars BY <1>1, <2>1, <2>3 DEF roomVars
  <2> QED BY <1>4, <2>2, <2>3 DEF HandleJoinRoom
<1>5. CASE Place
  <2>1. placing \in Conn /\ TakePlace(placing) /\ reader' = reader
    BY <1>5 DEF Place, pumpVars, IInv, HubTypeOK
  <2> QED BY <2>1, TakingIsAccounted
<1> QED BY <1>1, <1>2, <1>3, <1>4, <1>5, LeavingIsAccounted, ReadersAreAccounted DEF Next, Handle

LEMMA StartedStep == IInv /\ PInv /\ [Next]_vars => Started'
<1> SUFFICES ASSUME IInv, Started, [Next]_vars PROVE Started' BY DEF PInv
<1>1. \A c \in Conn : reader[c] # "new" => reader'[c] # "new" BY ReadersGoOn
<1>2. /\ inRoom \in [Conn -> BOOLEAN] /\ waiting \subseteq Conn /\ queue \in Seq(Conn)
      /\ incoming \in Seq([from : Conn, kind : Kind])
      /\ client \in Conn \cup {Nobody} /\ placing \in Conn \cup {Nobody} /\ Nobody \notin Conn
  BY ConnAssumption DEF IInv, HubTypeOK
<1>3. \A c \in Conn : inRoom'[c] => reader'[c] # "new"
  <2>1. CASE inRoom' = inRoom BY <1>1, <2>1 DEF Started
  <2>2. ASSUME NEW d \in Conn, HandleJoinRoom(d), TakePlace(d)
        PROVE  \A c \in Conn : inRoom'[c] => reader'[c] # "new"
    BY <1>1, <1>2, <2>2, TakenIsStarted DEF HandleJoinRoom, TakePlace, Started
  <2>3. CASE Place
    <3>1. placing \in Conn /\ TakePlace(placing) BY <2>3 DEF Place, IInv, HubTypeOK
    <3> QED BY <1>1, <1>2, <3>1 DEF TakePlace, Started
  <2>4. ASSUME NEW d \in Conn, HandleLeaveRoom(d)
        PROVE  \A c \in Conn : inRoom'[c] => reader'[c] # "new"
    BY <1>1, <1>2, <2>4 DEF HandleLeaveRoom, Started
  <2>5. ASSUME NEW c \in Conn,
               \/ Break(c) \/ (\E kind \in Sends[c] : Read(c, kind)) \/ Write(c) \/ WriteFails(c)
               \/ WriterEnds(c) \/ Examine(c) \/ CallbackSends(c) \/ HandleMove(c) \/ HandleAutoMatch(c)
               \/ Register(c) \/ Unregister(c) \/ ReadFails(c) \/ (HandleJoinRoom(c) /\ ~TakePlace(c))
        PROVE  inRoom' = inRoom
    BY <2>5 DEF Break, Read, Write, WriteFails, WriterEnds, Examine, CallbackSends, HandleMove,
       HandleAutoMatch, HandleJoinRoom, Register, Unregister, ReadFails, Takes, pumpVars, roomVars
  <2>6. ASSUME Reply \/ Enqueue \/ AddToWaitList \/ PutOff \/ Announce \/ UNCHANGED vars
        PROVE  inRoom' = inRoom
    BY <2>6 DEF Reply, Enqueue, AddToWaitList, PutOff, Announce, vars, pumpVars, roomVars
  <2> QED BY <2>1, <2>2, <2>3, <2>4, <2>5, <2>6 DEF Next, Handle
<1>4. \A k \in 1 .. Len(incoming') : reader'[incoming'[k].from] # "new"
  <2> DEFINE Message == [from : Conn, kind : Kind]
  <2>1. \A m \in Message : m.from \in Conn OBVIOUS
  <2>2. \A k \in 1 .. Len(incoming) : incoming[k] \in Message
    <3> HIDE DEF Message
    <3>1. incoming \in Seq(Message) BY <1>2 DEF Message
    <3> QED BY <3>1
  <2> HIDE DEF Message
  <2>3. \A k \in 1 .. Len(incoming) : reader'[incoming[k].from] # "new"
    BY <1>1, <2>1, <2>2 DEF Started
  <2>4. CASE incoming' = incoming BY <2>3, <2>4
  <2>5. ASSUME NEW c \in Conn, NEW kind \in Sends[c], Read(c, kind)
        PROVE  \A k \in 1 .. Len(incoming') : reader'[incoming'[k].from] # "new"
    <3>1. incoming' = Append(incoming, [from |-> c, kind |-> kind]) /\ reader[c] = "reading"
      BY <2>5 DEF Read
    <3>2. [from |-> c, kind |-> kind] \in [from : Conn, kind : Kind] BY ConnAssumption
    <3>3. \A k \in 1 .. Len(incoming') :
            \/ k \in 1 .. Len(incoming) /\ incoming'[k] = incoming[k]
            \/ incoming'[k] = [from |-> c, kind |-> kind]
      BY <1>2, <3>1, <3>2
    <3>4. reader'[c] # "new" BY <1>1, <3>1
    <3> QED BY <2>3, <3>3, <3>4
  <2>6. CASE incoming # << >> /\ incoming' = Tail(incoming)
    <3>1. \A k \in 1 .. Len(incoming') : k + 1 \in 1 .. Len(incoming) /\ incoming'[k] = incoming[k + 1]
      BY <1>2, <2>6
    <3> QED BY <2>3, <3>1
  <2>7. ASSUME NEW c \in Conn,
               HandleJoinRoom(c) \/ HandleLeaveRoom(c) \/ HandleMove(c) \/ HandleAutoMatch(c)
        PROVE  incoming # << >> /\ incoming' = Tail(incoming)
    BY <2>7 DEF HandleJoinRoom, HandleLeaveRoom, HandleMove, HandleAutoMatch, Takes
  <2>8. ASSUME NEW c \in Conn,
               \/ Break(c) \/ Write(c) \/ WriteFails(c) \/ WriterEnds(c) \/ Examine(c) \/ CallbackSends(c)
               \/ Register(c) \/ Unregister(c) \/ ReadFails(c)
        PROVE  incoming' = incoming
    BY <2>8 DEF Break, Write, WriteFails, WriterEnds, Examine, CallbackSends, Register, Unregister,
       ReadFails
  <2>9. ASSUME Reply \/ Enqueue \/ AddToWaitList \/ Place \/ PutOff \/ Announce \/ UNCHANGED vars
        PROVE  incoming' = incoming
    BY <2>9 DEF Reply, Enqueue, AddToWaitList, Place, PutOff, Announce, vars
  <2> QED BY <2>4, <2>5, <2>6, <2>7, <2>8, <2>9 DEF Next, Handle
<1>5. client' # Nobody => reader'[client'] # "new"
  <2>1. CASE client' \in {client, Nobody} BY <1>1, <1>2, <2>1 DEF Started
  <2>2. ASSUME NEW c \in Conn,
               HandleJoinRoom(c) \/ HandleLeaveRoom(c) \/ HandleMove(c) \/ HandleAutoMatch(c)
        PROVE  client' = client \/ (client' = c /\ reader[c] # "new")
    BY <2>2, TakenIsStarted
       DEF HandleJoinRoom, HandleLeaveRoom, HandleMove, HandleAutoMatch, Silent, Answer
  <2>3. ASSUME NEW c \in Conn,
               \/ Break(c) \/ (\E kind \in Sends[c] : Read(c, kind)) \/ Write(c) \/ WriteFails(c)
               \/ WriterEnds(c) \/ Examine(c) \/ CallbackSends(c)
               \/ Register(c) \/ Unregister(c) \/ ReadFails(c)
        PROVE  client' = client
    BY <2>3 DEF Break, Read, Write, WriteFails, WriterEnds, Examine, CallbackSends, Register,
       Unregister, ReadFails, hubVars
  <2>4. ASSUME Reply \/ Enqueue \/ AddToWaitList \/ Place \/ PutOff \/ Announce \/ UNCHANGED vars
        PROVE  client' \in {client, Nobody}
    BY <2>4 DEF Reply, Enqueue, AddToWaitList, Place, PutOff, Announce, vars, hubVars
  <2> QED BY <1>1, <2>1, <2>2, <2>3, <2>4 DEF Next, Handle
<1>6. /\ \A k \in 1 .. Len(queue') : reader'[queue'[k]] # "new"
      /\ \A c \in waiting' : reader'[c] # "new"
      /\ placing' # Nobody => reader'[placing'] # "new"
  <2>1. CASE UNCHANGED mmVars BY <1>1, <1>2, <2>1 DEF Started, mmVars
  <2>2. CASE Enqueue
    <3>1. queue' = Append(queue, client) /\ client \in Conn /\ waiting' = waiting /\ placing' = placing
      BY <2>2 DEF Enqueue, IInv, HubTypeOK
    <3>2. reader[client] # "new" BY <1>2, <3>1 DEF Started
    <3> QED BY <1>1, <1>2, <3>1, <3>2 DEF Started
  <2>3. CASE AddToWaitList
    <3>1. /\ queue # << >> /\ queue' = Tail(queue) /\ waiting' = waiting \cup {Head(queue)}
          /\ placing' = placing
      BY <2>3 DEF AddToWaitList
    <3>2. /\ \A k \in 1 .. Len(queue') : k + 1 \in 1 .. Len(queue) /\ queue'[k] = queue[k + 1]
          /\ 1 \in 1 .. Len(queue) /\ Head(queue) = queue[1]
      BY <1>2, <3>1
    <3>3. \A k \in 1 .. Len(queue) : queue[k] \in Conn BY <1>2
    <3>4. \A k \in 1 .. Len(queue) : reader'[queue[k]] # "new" BY <1>1, <3>3 DEF Started
    <3> QED BY <1>1, <1>2, <3>1, <3>2, <3>4 DEF Started
  <2>4. ASSUME NEW c \in Conn, Examine(c)
        PROVE  /\ queue' = queue /\ waiting' \subseteq waiting
               /\ placing' = placing \/ (placing' = c /\ c \in waiting)
    BY <2>4 DEF Examine
  <2>5. CASE Place \/ PutOff \/ Announce
    <3>1. /\ queue' = queue /\ placing' \in {placing, Nobody}
          /\ waiting' \subseteq waiting \cup {placing} /\ placing \in Conn
      BY <2>5 DEF Place, PutOff, Announce, IInv, HubTypeOK
    <3> QED BY <1>1, <1>2, <3>1 DEF Started
  <2>6. CASE \E c \in Conn : Examine(c) BY <1>1, <1>2, <2>4, <2>6 DEF Started
  <2>7. ASSUME NEW c \in Conn,
               \/ Break(c) \/ (\E kind \in Sends[c] : Read(c, kind)) \/ Write(c) \/ WriteFails(c)
               \/ WriterEnds(c) \/ CallbackSends(c) \/ HandleMove(c) \/ HandleAutoMatch(c)
               \/ Register(c) \/ Unregister(c) \/ ReadFails(c) \/ HandleJoinRoom(c) \/ HandleLeaveRoom(c)
        PROVE  UNCHANGED mmVars
    BY <2>7 DEF Break, Read, Write, WriteFails, WriterEnds, CallbackSends, HandleMove,
       HandleAutoMatch, HandleJoinRoom, HandleLeaveRoom, Register, Unregister, ReadFails
  <2>8. ASSUME Reply \/ UNCHANGED vars PROVE UNCHANGED mmVars BY <2>8 DEF Reply, vars
  <2> QED BY <2>1, <2>2, <2>3, <2>5, <2>6, <2>7, <2>8 DEF Next, Handle
<1> QED BY <1>3, <1>4, <1>5, <1>6 DEF Started

\* When the last connection of a user has been unregistered no seat of his is
\* left, but for the two ways Hub.tla names: for any number of users and
\* connections, and in whatever order connections come and go.
THEOREM NoSeatsLeft == Spec => []NoGhostSeats
<1>1. ASSUME IInv, PInv PROVE NoGhostSeats
  <2> SUFFICES ASSUME NEW u \in User \ disowned,
                      \A c \in Conn : UserOf[c] = u => reader[c] \in {"new", "done"}
               PROVE  places[u] = 0
    BY DEF NoGhostSeats
  <2>1. Present(u) = {} BY <1>1 DEF PInv, Started, Present
  <2>2. places[u] <= 0 BY <1>1, <2>1, FS_EmptySet DEF PInv, Accounted
  <2>3. places[u] \in Nat BY <1>1 DEF IInv, HubTypeOK
  <2> QED BY <2>2, <2>3
<1>2. IInv /\ PInv /\ [Next]_vars => PInv' BY AccountedStep, StartedStep DEF PInv
<1> QED BY PlacesInit, <1>1, <1>2, HubInvariance, PTL DEF Spec
=============================================================================
