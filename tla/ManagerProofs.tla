--------------------------- MODULE ManagerProofs ---------------------------
(***************************************************************************)
(* Theorems about the bot manager, for any rooms, any number of seats and  *)
(* any number of dedicated rooms and of bots in them.                      *)
(***************************************************************************)
EXTENDS Manager, TLAPS

\* What the manager is about to do fits the room as others have left it: the
\* bots it has seated and is going to seat leave a seat free; they are as many
\* as a dedicated room gets, or, unless somebody has left, enough to fill a room.
PlanFits ==
  /\ at \in {"register", "seat"} =>
       /\ hasBots[room] /\ bots[room] + needed < SeatCount
       /\ job = "setup" => bots[room] + needed = DedicatedBots
  /\ job = "setup" /\ at = "claim" => count < DedicatedRooms
  /\ job = "fill" /\ at = "claim" => ~hasBots[room] /\ needed \in 1 .. SeatCount - 1
  /\ job = "fill" /\ at \in {"claim", "register", "seat"} /\ ~left
       => SeatCount <= PlayerCount(room) + needed

IInv == BotsLeaveASeat /\ PlanFits

USE DEF PlayerCount, Full

LEMMA InitInv == Init => IInv
<1> SUFFICES ASSUME Init PROVE IInv
  OBVIOUS
<1> USE ManagerAssumption DEF Init
<1>1. ManagerTypeOK
  <2>1. 0 \in 0..SeatCount /\ 0 \in 0..DedicatedRooms OBVIOUS
  <2>2. /\ humans \in [Room -> 0..SeatCount] /\ bots \in [Room -> 0..SeatCount]
        /\ registered \in [Room -> Nat]
    BY <2>1
  <2>3. /\ phase \in [Room -> {"lobby", "playing"}] /\ hasBots \in [Room -> BOOLEAN]
        /\ waitingSince \in [Room -> {"none", "fresh", "old"}]
    OBVIOUS
  <2> QED BY <2>1, <2>2, <2>3 DEF ManagerTypeOK
<1>2. BotsLeaveASeat BY <1>1 DEF BotsLeaveASeat
<1>3. PlanFits BY DEF PlanFits
<1> QED BY <1>2, <1>3 DEF IInv

LEMMA EnterKeepsInv ==
  ASSUME IInv, NEW r \in Room, Enter(r), waitingSince' \in [Room -> {"none", "fresh", "old"}]
  PROVE  IInv'
<1> USE ManagerAssumption DEF IInv, BotsLeaveASeat, ManagerTypeOK, PlanFits, loopVars
<1>1. UNCHANGED <<bots, phase, hasBots, registered, job, todo, count, room, at, needed, left>>
  BY DEF Enter
<1>2. \A q \in Room : humans[q] \in 0..SeatCount /\ bots[q] \in 0..SeatCount
  OBVIOUS
<1>3. humans' = [humans EXCEPT ![r] = humans[r] + 1] /\ humans[r] + bots[r] < SeatCount
  <2>1. humans[r] + bots[r] <= SeatCount /\ humans[r] + bots[r] # SeatCount BY DEF Enter
  <2>2. humans[r] \in Nat /\ bots[r] \in Nat /\ SeatCount \in Nat BY <1>2
  <2>3. humans[r] + bots[r] < SeatCount BY ONLY <2>1, <2>2
  <2>4. humans' = [humans EXCEPT ![r] = humans[r] + 1] BY DEF Enter
  <2> QED BY <2>3, <2>4
<1>4. \A q \in Room : humans'[q] = IF q = r THEN humans[q] + 1 ELSE humans[q]
  BY <1>3
<1>5. humans' \in [Room -> 0..SeatCount]
  <2>1. humans[r] + 1 \in 0..SeatCount BY <1>3, <1>2
  <2> QED BY <1>3, <2>1
<1>6. ManagerTypeOK' BY <1>1, <1>5
<1>7. BotsLeaveASeat'
  <2>1. \A q \in Room : humans'[q] + bots[q] <= SeatCount BY <1>3, <1>2, <1>4
  <2> QED BY <1>1, <1>6, <2>1
<1>8. PlanFits'
  <2>1. \A q \in Room : humans[q] + bots[q] <= humans'[q] + bots[q] BY <1>2, <1>4
  <2>2. \A q \in Room : humans[q] + bots[q] \in Nat /\ humans'[q] + bots[q] \in Nat
    <3>1. \A q \in Room : humans[q] \in Nat /\ bots[q] \in Nat BY <1>2
    <3> QED BY <1>4, <3>1
  <2> QED BY <1>1, <2>1, <2>2
<1> QED BY <1>7, <1>8

\* People come, go and play, and time passes.
LEMMA PeopleKeepInv ==
  ASSUME IInv, NEW r \in Room,
         Join(r) \/ Matched(r) \/ Leave(r) \/ StartGame(r) \/ EndGame(r) \/ Age(r)
  PROVE  IInv'
<1> USE ManagerAssumption DEF IInv, BotsLeaveASeat, ManagerTypeOK, PlanFits, loopVars
<1>1. CASE Join(r) BY <1>1, EnterKeepsInv DEF Join
<1>2. CASE Matched(r) BY <1>2, EnterKeepsInv DEF Matched
<1>3. CASE Leave(r)
  <2>1. humans' = [humans EXCEPT ![r] = humans[r] - 1] /\ humans[r] \in 1..SeatCount
    BY <1>3 DEF Leave
  <2>2. left' = (left \/ r = room) BY <1>3 DEF Leave
  <2>3. ManagerTypeOK'
    <3>1. humans' \in [Room -> 0..SeatCount]
      <4>1. humans[r] - 1 \in 0..SeatCount BY <2>1
      <4> QED BY <2>1, <4>1
    <3>2. phase' \in [Room -> {"lobby", "playing"}] /\ left' \in BOOLEAN BY <1>3 DEF Leave
    <3> QED BY <1>3, <3>1, <3>2 DEF Leave
  <2>4. BotsLeaveASeat'
    <3>1. /\ UNCHANGED <<bots, hasBots, registered, at, room>>
      BY <1>3 DEF Leave
    <3>2. ASSUME NEW q \in Room PROVE humans'[q] + bots[q] <= SeatCount
      <4>1. humans[q] \in 0..SeatCount /\ bots[q] \in 0..SeatCount /\ humans[q] + bots[q] <= SeatCount
        OBVIOUS
      <4>2. humans'[q] = humans[q] \/ humans'[q] = humans[q] - 1 BY <2>1
      <4> QED BY <4>1, <4>2
    <3> QED BY <2>3, <3>1, <3>2
  <2>5. PlanFits'
    <3>1. CASE r = room BY <1>3, <2>1, <2>2, <3>1 DEF Leave
    <3>2. CASE r # room BY <1>3, <2>1, <2>2, <3>2 DEF Leave
    <3> QED BY <3>1, <3>2
  <2> QED BY <2>4, <2>5
<1>4. CASE StartGame(r) BY <1>4 DEF StartGame
<1>5. CASE EndGame(r) BY <1>5 DEF EndGame
<1>6. CASE Age(r) BY <1>6 DEF Age
<1> QED BY <1>1, <1>2, <1>3, <1>4, <1>5, <1>6

LEMMA LooksKeepInv ==
  ASSUME IInv,
         \/ \E r \in Room : SetupLook(r) \/ FillLook(r)
         \/ SetupEnds \/ Tick \/ FillEnds
  PROVE  IInv'
<1> USE ManagerAssumption DEF IInv, BotsLeaveASeat, ManagerTypeOK, PlanFits, roomVars, loopVars
<1>1. CASE \E r \in Room : SetupLook(r)
  <2>1. PICK r \in Room : SetupLook(r) BY <1>1
  <2>2. CASE phase[r] = "lobby" /\ PlayerCount(r) = 0 BY <2>1, <2>2 DEF SetupLook
  <2>3. CASE ~(phase[r] = "lobby" /\ PlayerCount(r) = 0) BY <2>1, <2>3 DEF SetupLook
  <2> QED BY <2>2, <2>3
<1>2. CASE \E r \in Room : FillLook(r)
  <2>1. PICK r \in Room : FillLook(r) BY <1>2
  <2> DEFINE fill == /\ phase[r] = "lobby" /\ humans[r] > 0 /\ ~Full(r)
                     /\ ~hasBots[r] /\ waitingSince[r] = "old"
  <2>2. Look(r, fill) /\ todo' = todo \ {r} BY <2>1 DEF FillLook
  <2> HIDE DEF fill
  <2>3. CASE fill
    <3>1. /\ r \in Room /\ at' = "claim" /\ room' = r /\ job' = job
          /\ needed' = SeatCount - PlayerCount(r)
          /\ UNCHANGED <<humans, bots, hasBots, registered>>
      BY <2>1, <2>2, <2>3 DEF Look
    <3>2. ~hasBots[r] /\ humans[r] > 0 /\ ~Full(r) BY <2>3 DEF fill
    <3>3. needed' \in 1 .. SeatCount - 1
      <4>1. humans[r] \in 0..SeatCount /\ bots[r] \in 0..SeatCount /\ PlayerCount(r) <= SeatCount
        BY <2>1
      <4> QED BY <3>1, <3>2, <4>1
    <3>4. ManagerTypeOK'
      <4>1. needed' \in 0..SeatCount /\ needed' > 0 BY <3>3
      <4>2. /\ UNCHANGED <<phase, waitingSince, count>> /\ left' = FALSE
            /\ todo' = todo \ {r}
        BY <2>2 DEF Look
      <4> QED BY <3>1, <4>1, <4>2
    <3>5. BotsLeaveASeat'
      <4>1. at # "seat" /\ at' # "seat" BY <2>2, <3>1 DEF Look
      <4> QED BY <3>1, <3>4, <4>1
    <3>6. PlanFits'
      <4>1. job' = "fill" BY <2>2, <3>1 DEF Look
      <4>2. SeatCount <= PlayerCount(r)' + needed'
        <5>1. PlayerCount(r)' = PlayerCount(r) /\ PlayerCount(r) \in Nat BY <2>1, <3>1
        <5> QED BY <3>1, <5>1
      <4> QED BY <3>1, <3>2, <3>3, <4>1, <4>2
    <3> QED BY <3>5, <3>6
  <2>4. CASE ~fill BY <2>2, <2>4 DEF Look
  <2> QED BY <2>3, <2>4
<1>3. CASE SetupEnds BY <1>3 DEF SetupEnds
<1>4. CASE Tick BY <1>4 DEF Tick
<1>5. CASE FillEnds BY <1>5 DEF FillEnds
<1> QED BY <1>1, <1>2, <1>3, <1>4, <1>5

LEMMA ClaimsKeepInv ==
  ASSUME IInv, SetupClaim \/ FillClaim PROVE IInv'
<1> USE ManagerAssumption DEF IInv, BotsLeaveASeat, ManagerTypeOK, PlanFits
<1>1. CASE SetupClaim
  <2>1. CASE PlayerCount(room) # 0 \/ phase[room] # "lobby" BY <1>1, <2>1 DEF SetupClaim
  <2>2. CASE ~(PlayerCount(room) # 0 \/ phase[room] # "lobby")
    <3>1. room \in Room /\ bots[room] = 0 BY <1>1, <2>2 DEF SetupClaim
    <3>2. /\ hasBots' = [hasBots EXCEPT ![room] = TRUE]
          /\ needed' = DedicatedBots /\ at' = "register" /\ count' = count + 1
          /\ count < DedicatedRooms
          /\ UNCHANGED <<humans, bots, phase, waitingSince, registered, job, todo, room, left>>
      BY <1>1, <2>2 DEF SetupClaim
    <3>3. ManagerTypeOK' BY <3>1, <3>2
    <3>4. BotsLeaveASeat'
      <4>1. at = "claim" /\ at' = "register" BY <1>1, <3>2 DEF SetupClaim
      <4>2. ASSUME NEW q \in Room PROVE bots[q] > 0 => hasBots'[q] BY <3>1, <3>2
      <4> QED BY <3>2, <3>3, <4>1, <4>2
    <3>5. PlanFits' BY <1>1, <3>1, <3>2 DEF SetupClaim
    <3> QED BY <3>4, <3>5
  <2> QED BY <2>1, <2>2
<1>2. CASE FillClaim BY <1>2 DEF FillClaim, loopVars
<1> QED BY <1>1, <1>2

LEMMA SeatingKeepsInv ==
  ASSUME IInv, RegisterBot \/ SeatBot PROVE IInv'
<1> USE ManagerAssumption DEF IInv, BotsLeaveASeat, ManagerTypeOK, PlanFits, loopVars
<1>1. CASE RegisterBot BY <1>1 DEF RegisterBot, roomVars
<1>2. CASE SeatBot
  <2>1. CASE Full(room) BY <1>2, <2>1 DEF SeatBot
  <2>2. CASE ~Full(room) /\ needed = 1 BY <1>2, <2>2 DEF SeatBot
  <2>3. CASE ~Full(room) /\ needed # 1 BY <1>2, <2>3 DEF SeatBot
  <2> QED BY <2>1, <2>2, <2>3
<1> QED BY <1>1, <1>2

LEMMA StepInv == IInv /\ [Next]_vars => IInv'
<1> SUFFICES ASSUME IInv, [Next]_vars PROVE IInv'
  OBVIOUS
<1>1. CASE Next BY <1>1, PeopleKeepInv, LooksKeepInv, ClaimsKeepInv, SeatingKeepsInv DEF Next, Manage
<1>2. CASE UNCHANGED vars
  BY <1>2 DEF vars, roomVars, loopVars, IInv, BotsLeaveASeat, ManagerTypeOK, PlanFits
<1> QED BY <1>1, <1>2

\* The inductive invariant: the plan the manager made under an earlier lock
\* still fits the room.
THEOREM ManagerInvariance == Spec => []IInv
<1> QED BY InitInv, StepInv, PTL DEF Spec

\* Bots never take the last seat, sit in marked rooms only, and are in the
\* registry exactly if they have a seat.
THEOREM SeatsForPeople == Spec => []BotsLeaveASeat
<1>1. IInv => BotsLeaveASeat BY DEF IInv
<1> QED BY <1>1, ManagerInvariance, PTL

\* A room the manager is done with has its bots, whoever came meanwhile.
THEOREM RoomsFilled == Spec => RoomsGetTheirBots
<1> DEFINE Done == at = "seat" /\ at' = "loop" =>
                     \/ Full(room)'
                     \/ job = "fill" /\ left
                     \/ job = "setup" /\ bots'[room] = DedicatedBots
<1>1. ASSUME IInv, [Next]_vars PROVE [Done]_vars
  <2> SUFFICES ASSUME Next, at = "seat", at' = "loop" PROVE Done
    BY <1>1
  <2> USE <1>1, ManagerAssumption DEF IInv, BotsLeaveASeat, ManagerTypeOK, PlanFits
  <2>1. SeatBot
    <3>1. ASSUME NEW r \in Room PROVE ~(Join(r) \/ Matched(r) \/ Leave(r) \/ StartGame(r) \/ EndGame(r) \/ Age(r))
      BY DEF Join, Matched, Enter, Leave, StartGame, EndGame, Age
    <3>2. ASSUME NEW r \in Room PROVE ~(SetupLook(r) \/ FillLook(r))
      BY DEF SetupLook, FillLook, Look
    <3>3. ~(SetupClaim \/ SetupEnds \/ Tick \/ FillClaim \/ FillEnds \/ RegisterBot)
      BY DEF SetupClaim, SetupEnds, Tick, FillClaim, FillEnds, RegisterBot
    <3> QED BY <3>1, <3>2, <3>3 DEF Next, Manage
  <2>2. CASE Full(room) BY <2>1, <2>2 DEF SeatBot, loopVars
  <2>3. CASE ~Full(room)
    <3>1. /\ room \in Room /\ needed = 1 /\ room' = room /\ humans' = humans
          /\ bots'[room] = bots[room] + 1
      BY <2>1, <2>3 DEF SeatBot, loopVars
    <3>2. CASE job = "setup" BY <3>1, <3>2
    <3>3. CASE job = "fill" /\ ~left
      <4>1. SeatCount <= PlayerCount(room) + 1 BY <3>1, <3>3
      <4>2. PlayerCount(room) <= SeatCount - 1 BY <2>3, <3>1
      <4> QED BY <3>1, <4>1, <4>2
    <3> QED BY <3>2, <3>3
  <2> QED BY <2>2, <2>3
<1> QED BY <1>1, ManagerInvariance, PTL DEF Spec, RoomsGetTheirBots
=============================================================================
