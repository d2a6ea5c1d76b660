------------------------------- MODULE Locks -------------------------------
(***************************************************************************)
(* Who takes which lock while holding which.  The server has the hub's     *)
(* RWMutex (h.mu, for the registry of clients) and one RWMutex per room;   *)
(* the other locks guard a few lines that take none.  Nearly everything    *)
(* that happens to a room happens under its lock and looks up clients, one *)
(* after the other, under the hub's read lock.                             *)
(*                                                                         *)
(* A thread is what is left of the operation it is in: a sequence of lock  *)
(* operations.  Everything between them is left out.                       *)
(***************************************************************************)
EXTENDS Naturals, Sequences, FiniteSets

CONSTANTS
  Room,
  HubLock,        \* h.mu
  HubLoop,        \* the hub goroutine
  Callbacks,      \* goroutines of turn timers and of finished games
  Matchmaker,     \* the matchmaking goroutine
  Manager,        \* the bot manager's goroutine
  Listers,        \* goroutines of GET /api/rooms
  Free            \* in place of a thread: none

Thread == {HubLoop, Matchmaker, Manager} \cup Callbacks \cup Listers
Lock == Room \cup {HubLock}

ASSUME LockAssumption == HubLock \notin Room /\ Free \notin Thread

VARIABLES
  rest,       \* rest[t]: the lock operations t still has to do
  readers,    \* readers[l]: the threads that hold l for reading
  writing,    \* writing[l]: the thread that has called Lock() and holds l or
              \* waits for its readers to leave
  exclusive   \* exclusive[l]: writing[l] holds l

vars == <<rest, readers, writing, exclusive>>

Init ==
  /\ rest = [t \in Thread |-> << >>]
  /\ readers = [l \in Lock |-> {}]
  /\ writing = [l \in Lock |-> Free]
  /\ exclusive = [l \in Lock |-> FALSE]

----------------------------------------------------------------------------
(* The operations. *)

Op(kind, l) == <<[kind |-> kind, lock |-> l]>>
Reading(l, s) == Op("RLock", l) \o s \o Op("RUnlock", l)
Writing(l, s) == Op("Lock", l) \o s \o Op("Unlock", l)
Nothing == << >>

\* Mistake: an early return without RUnlock().
LookUpLeaking == Op("RLock", HubLock)

\* GetRoom, GetClient: the lock is held for one lookup.
LookUp == Reading(HubLock, Nothing)

\* Mistake: BroadcastToRoom where the caller holds the room's lock already.
BroadcastToRoom(r) == LookUp \o Reading(r, Nothing) \o LookUp

\* BroadcastToRoomHeld looks up every user of the room; one stands for all.
BroadcastHeld(r) == LookUp

\* Mistake: Unlock() only at the end of the case.
UnregisterDeferred(r) == Writing(HubLock, LookUp \o Writing(r, BroadcastHeld(r)))

Register == Writing(HubLock, Nothing)
Unregister(r) == Writing(HubLock, Nothing) \o LookUp \o Writing(r, BroadcastHeld(r))

\* handleJoinRoom, handleLeaveRoom, handleReady, handlePlayCards,
\* handlePassTurn; the callbacks of timers and of finished games are alike.
Handler(r) == LookUp \o Writing(r, BroadcastHeld(r))
Chat(r) == LookUp \o Reading(r, Nothing) \o LookUp

\* findAvailableRoom and the seat it found.
SeatWaiters(r) == Reading(r, Nothing) \o Writing(r, Nothing)

\* autoFillRooms with addBotsToRoom.
FillRoom(r) ==
  Reading(r, Nothing) \o Writing(r, Nothing) \o Writing(HubLock, Nothing) \o Writing(r, Nothing)

\* ListRoomInfos holds the hub's lock while it takes each room's, in an order
\* of the map's.
ListRooms ==
  {Reading(HubLock, Reading(s[1], Nothing) \o Reading(s[2], Nothing)) :
     s \in {q \in Room \X Room : q[1] # q[2] \/ Cardinality(Room) = 1}}

Operations(t) ==
  UNION { IF t = HubLoop THEN {Register} \cup UNION {{Unregister(r), Handler(r), Chat(r)} : r \in Room} ELSE {},
          IF t \in Callbacks THEN {Handler(r) : r \in Room} ELSE {},
          IF t = Matchmaker THEN {SeatWaiters(r) : r \in Room} ELSE {},
          IF t = Manager THEN {FillRoom(r) : r \in Room} ELSE {},
          IF t \in Listers THEN ListRooms ELSE {} }

----------------------------------------------------------------------------
(* sync.RWMutex: a Lock() that waits keeps new readers out. *)

Begin(t) ==
  /\ rest[t] = << >>
  /\ \E s \in Operations(t) : rest' = [rest EXCEPT ![t] = s]
  /\ UNCHANGED <<readers, writing, exclusive>>

Now(t, kind) == rest[t] # << >> /\ Head(rest[t]).kind = kind
TheLock(t) == Head(rest[t]).lock
Done(t) == rest' = [rest EXCEPT ![t] = Tail(@)]

RLock(t) ==
  /\ Now(t, "RLock") /\ writing[TheLock(t)] = Free
  /\ readers' = [readers EXCEPT ![TheLock(t)] = @ \cup {t}]
  /\ Done(t) /\ UNCHANGED <<writing, exclusive>>

RUnlock(t) ==
  /\ Now(t, "RUnlock")
  /\ readers' = [readers EXCEPT ![TheLock(t)] = @ \ {t}]
  /\ Done(t) /\ UNCHANGED <<writing, exclusive>>

\* Lock() announces itself, ...
Announce(t) ==
  /\ Now(t, "Lock") /\ writing[TheLock(t)] = Free
  /\ writing' = [writing EXCEPT ![TheLock(t)] = t]
  /\ UNCHANGED <<rest, readers, exclusive>>

\* ... and returns when the last reader is gone.
Acquire(t) ==
  /\ Now(t, "Lock") /\ writing[TheLock(t)] = t /\ readers[TheLock(t)] = {}
  /\ exclusive' = [exclusive EXCEPT ![TheLock(t)] = TRUE]
  /\ Done(t) /\ UNCHANGED <<readers, writing>>

Unlock(t) ==
  /\ Now(t, "Unlock")
  /\ writing' = [writing EXCEPT ![TheLock(t)] = Free]
  /\ exclusive' = [exclusive EXCEPT ![TheLock(t)] = FALSE]
  /\ Done(t) /\ UNCHANGED readers

Step(t) == RLock(t) \/ RUnlock(t) \/ Announce(t) \/ Acquire(t) \/ Unlock(t)

Next == \E t \in Thread : Begin(t) \/ Step(t)

Spec == Init /\ [][Next]_vars

\* A mutex wakes its waiters in turn and lets readers in after a writer, so
\* whoever can get a lock again and again gets it.
FairSpec == Spec /\ \A t \in Thread : SF_vars(Step(t))

----------------------------------------------------------------------------
(* Correctness. *)

OpRecord == [kind : {"RLock", "RUnlock", "Lock", "Unlock"}, lock : Lock]

Holds(t, l) == t \in readers[l] \/ (writing[l] = t /\ exclusive[l])
WaitsFor(t, l) == (Now(t, "RLock") \/ Now(t, "Lock")) /\ TheLock(t) = l

\* The next operation of thread t on l gives it back.
GivesBack(t, l, kind) ==
  \E k \in DOMAIN rest[t] :
    /\ rest[t][k] = [kind |-> kind, lock |-> l]
    /\ \A j \in 1 .. k - 1 : rest[t][j].lock # l

\* A thread holds exactly the locks that the operation it is in still gives
\* back, none when it is done, and a writer shares its lock with nobody.
LocksOK ==
  /\ rest \in [Thread -> Seq(OpRecord)]
  /\ \A t \in Thread, l \in Lock :
       /\ t \in readers[l] <=> GivesBack(t, l, "RUnlock")
       /\ (writing[l] = t /\ exclusive[l]) <=> GivesBack(t, l, "Unlock")
  /\ \A l \in Lock : exclusive[l] => readers[l] = {}

\* The order of the locks, which hub.go:127-141 hints at: the hub's lock is
\* the inner one.  Who holds it waits for no lock, and nobody waits for a
\* second room.  (GET /api/rooms is the exception: see RoomsAreListed.)
HubLockIsInner ==
  \A t \in Thread \ Listers, l, m \in Lock :
    Holds(t, l) /\ WaitsFor(t, m) => l # HubLock /\ m = HubLock

\* Every operation comes to its end.
EveryOperationEnds == \A t \in Thread : rest[t] # << >> ~> rest[t] = << >>

\* README.md:121, GET /api/rooms "List rooms": the request is answered.
RoomsAreListed == \A t \in Listers : rest[t] # << >> ~> rest[t] = << >>
=============================================================================
