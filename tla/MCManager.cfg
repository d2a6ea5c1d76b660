SPECIFICATION FairSpec
CONSTANTS
  r1 = r1
  r2 = r2
  Room <- MCRoom
  NoRoom = NoRoom
  SeatCount = 4
  DedicatedRooms = 1
  DedicatedBots = 3
INVARIANT
  BotsLeaveASeat
PROPERTIES
  RoomsGetTheirBots
  DueRoomsGetBots
