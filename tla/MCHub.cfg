SPECIFICATION FairSpec
CONSTANTS
  a1 = a1
  a2 = a2
  u = u
  Conn <- MCConn
  User <- MCUser
  UserOf <- MCUserOf
  Nobody = Nobody
  Sends <- MCSends
  SendCap = 1
  IncomingCap = 1
  QueueCap = 1
  Places = 2
INVARIANTS
  RegistryOK
  NoGhostSeats
PROPERTIES
  HubGoesOn
  ConnectionsWindUp
CHECK_DEADLOCK FALSE
