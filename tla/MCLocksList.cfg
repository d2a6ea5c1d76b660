SPECIFICATION FairSpec
CONSTANTS
  r1 = r1
  r2 = r2
  hub = hub
  c1 = c1
  c2 = c2
  l1 = l1
  Room <- MCRoom
  HubLock = HubLock
  HubLoop = hub
  Callbacks = {c1}
  Matchmaker = Matchmaker
  Manager = Manager
  Listers = {l1}
  Free = Free
PROPERTIES
  RoomsAreListed
CHECK_DEADLOCK FALSE
