SPECIFICATION FairSpec
CONSTANTS
  c1 = c1
  c2 = c2
  c3 = c3
  r1 = r1
  r2 = r2
  Nobody = Nobody
  Nowhere = Nowhere
  Client <- MCClient
  Room = {r1, r2}
  SeatCount = 1
  Joiners = {c1}
  Quitters = {c1}
  QueueCap = 2
  MaxRequests = 3
  MaxWaiting = 4
INVARIANTS
  SeatedOnce
  SliceInRange
PROPERTIES
  Served
CHECK_DEADLOCK FALSE
